---- MODULE Spec2Model ----
(***************************************************************************)
(* Model of the wu type-checking visitor (src/wu/visitor/visitor.rs):      *)
(* the type model (TypeNode, TypeMode, Type and their comparison           *)
(* relations) and the Visitor's traversal of statements and expressions    *)
(* with its context stack `inside` and its symbol table.                   *)
(***************************************************************************)
EXTENDS Integers, Sequences, FiniteSets, TLC

VARIABLES
    lhs, rhs, verdict,      \* operands and outcome of an operation on types
    symtab, inside, flag,   \* Visitor fields
    method_calls, module_content,
    ast, pass, idx,         \* the statements visited and the position in visit_block
    res, at,                \* outcome of the check and the position of its error
    import_map,             \* Visitor field: import position -> (resolved path, root)
    env,                    \* what an import resolves in: root, WU_HOME, files, is_deep
    module,                 \* outcome of find_module
    outer                   \* is_deep of the Visitors whose imports are being checked

cmpvars == <<lhs, rhs, verdict>>
findvars == <<import_map, env, module, outer>>
visvars == <<symtab, inside, flag, method_calls, module_content, ast, pass, idx, res, at>>
vars == <<lhs, rhs, verdict, symtab, inside, flag, method_calls, module_content,
          ast, pass, idx, res, at, import_map, env, module, outer>>

(***************************************************************************)
(* Bounds                                                                  *)
(***************************************************************************)
\* largest Splat count / fixed array length in the compared types
MaxCount == 2
\* longest Tuple / parameter list in the compared types
MaxArity == 2
\* number of top-level statements of a checked program
MaxStmts == 3
\* number of top-level statements of a program of declarations and calls
MaxCallStmts == 2

\* Option::None for Option<usize>
None == 0 - 1

(***************************************************************************)
(* TypeMode, TypeNode, Type                                                *)
(***************************************************************************)
Mode(m, c) == [m |-> m, c |-> c]
Regular == Mode("Regular", None)
Immutable == Mode("Immutable", None)
OptionalMode == Mode("Optional", None)
Undeclared == Mode("Undeclared", None)
Implemented == Mode("Implemented", None)
SplatMode(c) == Mode("Splat", c)
UnwrapMode(n) == Mode("Unwrap", n)

Type(node, mode) == [node |-> node, mode |-> mode]
\* Type::from
From(node) == Type(node, Regular)

Prim(k) == [k |-> k]
IntN == Prim("Int")
FloatN == Prim("Float")
BoolN == Prim("Bool")
StrN == Prim("Str")
CharN == Prim("Char")
NilN == Prim("Nil")
\* placeholder for the type of a failed Result
NoType == From(NilN)
AnyN == Prim("Any")
ThisN == Prim("This")
IdN(expr) == [k |-> "Id", expr |-> expr]
ArrayN(elem, len) == [k |-> "Array", elem |-> elem, len |-> len]
FuncN(params, ret, method) == [k |-> "Func", params |-> params, ret |-> ret, method |-> method]
ModuleN(members, foreign) == [k |-> "Module", members |-> members, foreign |-> foreign]
StructN(name, members, id) == [k |-> "Struct", name |-> name, members |-> members, id |-> id]
TraitN(name, members) == [k |-> "Trait", name |-> name, members |-> members]
OptionalN(inner) == [k |-> "Optional", inner |-> inner]
TupleN(elems) == [k |-> "Tuple", elems |-> elems]

PrimKinds == {"Int", "Float", "Bool", "Str", "Char", "Nil", "This"}

\* HashMap<String, Type>
EmptyMap == [n \in {} |-> From(NilN)]
MapPut(map, name, t) == [n \in (DOMAIN map) \cup {name} |-> IF n = name THEN t ELSE map[n]]
MapHas(map, name) == name \in DOMAIN map

(***************************************************************************)
(* impl PartialEq for TypeMode                                             *)
(***************************************************************************)
SplatLe(x, y) == x.c = None \/ y.c = None \/ x.c <= y.c

ModeEq(x, y) ==
    IF x.m = "Regular" /\ y.m = "Regular" THEN TRUE
    ELSE IF x.m = "Regular" /\ y.m = "Immutable" THEN TRUE
    ELSE IF x.m = "Immutable" /\ y.m = "Immutable" THEN TRUE
    ELSE IF x.m = "Immutable" /\ y.m = "Regular" THEN TRUE
    ELSE IF y.m = "Optional" THEN TRUE
    ELSE IF x.m = "Optional" THEN TRUE
    ELSE IF x.m = "Undeclared" THEN FALSE
    ELSE IF y.m = "Undeclared" THEN FALSE
    ELSE IF x.m = "Splat" /\ y.m = "Splat" THEN SplatLe(x, y)
    ELSE IF x.m = "Unwrap" THEN TRUE
    ELSE IF y.m = "Unwrap" THEN TRUE
    ELSE FALSE

\* TypeMode::strong_cmp
ModeStrongCmp(x, y) ==
    IF x.m = "Splat" /\ y.m = "Splat" THEN x.c = y.c
    ELSE IF x.m = "Unwrap" /\ y.m = "Unwrap" THEN TRUE
    ELSE x.m = y.m /\ x.m \in {"Regular", "Immutable", "Optional", "Implemented", "Undeclared"}

(***************************************************************************)
(* impl PartialEq for TypeNode, #[derive(PartialEq)] for Type              *)
(***************************************************************************)
RECURSIVE NodeEq(_, _)

\* derived PartialEq of Type: node first, then mode
TypeEq(x, y) == NodeEq(x.node, y.node) /\ ModeEq(x.mode, y.mode)

\* Vec<Type> == Vec<Type>
VecEq(xs, ys) == Len(xs) = Len(ys) /\ \A i \in 1..Len(xs) : TypeEq(xs[i], ys[i])

\* HashMap<String, Type> == HashMap<String, Type>
MapEq(m1, m2) ==
    /\ Cardinality(DOMAIN m1) = Cardinality(DOMAIN m2)
    /\ \A n \in DOMAIN m1 : MapHas(m2, n) /\ TypeEq(m1[n], m2[n])

\* the wildcard arms with `(_, &Any)` and `(_, &Optional(b))` left out
WildcardArms_LeftOnly(x, y) ==
    \/ x.k = "Any"
    \/ (x.k = "Optional" /\ NodeEq(x.inner, AnyN))

\* the four wildcard arms; the guards `**a == Any` are themselves `==` on TypeNode
WildcardArms(x, y) ==
    \/ x.k = "Any"
    \/ y.k = "Any"
    \/ (x.k = "Optional" /\ NodeEq(x.inner, AnyN))
    \/ (y.k = "Optional" /\ NodeEq(y.inner, AnyN))

\* (&Array(a, la), &Array(b, lb))
ArrayArm(x, y) ==
    /\ TypeEq(x.elem, y.elem)
    /\ (x.len = None \/ (NodeEq(x.elem.node, AnyN) /\ y.len = None) \/ x.len = y.len)

\* (&Func(a_params, a_retty, .., a), &Func(b_params, b_retty, .., b))
FuncArm(x, y) == VecEq(x.params, y.params) /\ TypeEq(x.ret, y.ret) /\ x.method = y.method

\* the Struct arm comparing the member maps instead of the ids
StructArm_Members(x, y) == x.name = y.name /\ MapEq(x.members, y.members)

\* (&Struct(name, _, content), &Struct(name_b, _, content_b)): content is the id
StructArm(x, y) == x.name = y.name /\ x.id = y.id

\* (&Trait(_, content), &Struct(_, content_b, _))
TraitStructArm(t, s) ==
    \A n \in DOMAIN t.members :
        MapHas(s.members, n) /\ NodeEq(t.members[n].node, s.members[n].node)

\* the arms after the wildcard arms, in match order
ConcreteArms(x, y) ==
    IF x.k \in PrimKinds /\ y.k = x.k THEN TRUE
    ELSE IF x.k = "Tuple" /\ y.k = "Tuple" THEN VecEq(x.elems, y.elems)
    ELSE IF x.k = "Array" /\ y.k = "Array" THEN ArrayArm(x, y)
    ELSE IF x.k = "Id" /\ y.k = "Id" THEN x.expr = y.expr
    ELSE IF x.k = "Func" /\ y.k = "Func" THEN FuncArm(x, y)
    ELSE IF x.k = "Struct" /\ y.k = "Struct" THEN StructArm(x, y)
    ELSE IF x.k = "Trait" /\ y.k = "Trait" THEN MapEq(x.members, y.members)
    ELSE IF x.k = "Trait" /\ y.k = "Struct" THEN TraitStructArm(x, y)
    ELSE IF x.k = "Optional" /\ y.k = "Nil" THEN TRUE
    ELSE IF x.k = "Nil" /\ y.k = "Optional" THEN TRUE
    ELSE IF x.k = "Optional" /\ y.k = "Optional" THEN NodeEq(x.inner, y.inner)
    ELSE IF x.k = "Optional" THEN NodeEq(x.inner, y)
    ELSE IF y.k = "Optional" THEN FALSE
    ELSE IF x.k = "Struct" /\ y.k = "Trait" THEN NodeEq(y, x)
    ELSE FALSE

NodeEq(x, y) == IF WildcardArms(x, y) THEN TRUE ELSE ConcreteArms(x, y)

\* strong_cmp with the Array arm comparing the element types only
StrongCmp_AnyLength(x, y) ==
    IF x.k \in (PrimKinds \cup {"Any"}) /\ y.k = x.k THEN TRUE
    ELSE IF x.k = "Tuple" /\ y.k = "Tuple" THEN VecEq(x.elems, y.elems)
    ELSE IF x.k = "Optional" /\ y.k = "Optional" THEN NodeEq(x.inner, y.inner)
    ELSE IF x.k = "Id" /\ y.k = "Id" THEN x.expr = y.expr
    ELSE IF x.k = "Array" /\ y.k = "Array" THEN TypeEq(x.elem, y.elem)
    ELSE IF x.k = "Func" /\ y.k = "Func" THEN FuncArm(x, y)
    ELSE IF x.k = "Struct" /\ y.k = "Struct" THEN StructArm(x, y)
    ELSE IF x.k = "Trait" /\ y.k = "Trait"
        THEN x.name = y.name /\ MapEq(x.members, y.members)
    ELSE FALSE

\* TypeNode::strong_cmp; Tuple, Optional, Array and Func compare their parts with `==`
StrongCmp(x, y) ==
    IF x.k \in (PrimKinds \cup {"Any"}) /\ y.k = x.k THEN TRUE
    ELSE IF x.k = "Tuple" /\ y.k = "Tuple" THEN VecEq(x.elems, y.elems)
    ELSE IF x.k = "Optional" /\ y.k = "Optional" THEN NodeEq(x.inner, y.inner)
    ELSE IF x.k = "Id" /\ y.k = "Id" THEN x.expr = y.expr
    ELSE IF x.k = "Array" /\ y.k = "Array"
        THEN TypeEq(x.elem, y.elem) /\ (x.len = None \/ x.len = y.len)
    ELSE IF x.k = "Func" /\ y.k = "Func" THEN FuncArm(x, y)
    ELSE IF x.k = "Struct" /\ y.k = "Struct" THEN StructArm(x, y)
    ELSE IF x.k = "Trait" /\ y.k = "Trait"
        THEN x.name = y.name /\ MapEq(x.members, y.members)
    ELSE FALSE

(***************************************************************************)
(* ExpressionNode and StatementNode values the visitor matches on          *)
(***************************************************************************)
ENone == [e |-> "None"]
EInt(n) == [e |-> "Int", v |-> n]
EFloat == [e |-> "Float"]
EStr == [e |-> "Str"]
EBool == [e |-> "Bool"]
EId(name) == [e |-> "Identifier", name |-> name]
EArray(content) == [e |-> "Array", content |-> content]
EIndex(left, index) == [e |-> "Index", left |-> left, index |-> index]
ECall(callee, args) == [e |-> "Call", callee |-> callee, args |-> args]
EWhile(cond, body) == [e |-> "While", cond |-> cond, body |-> body]
EBlock(stmts) == [e |-> "Block", stmts |-> stmts]
\* an else-if arm (cond) or an else arm (cond = ENone)
Else(cond, body) == [cond |-> cond, body |-> body]
EIf(cond, body, elses) == [e |-> "If", cond |-> cond, body |-> body, elses |-> elses]
EFunction(params, retty, body, method) ==
    [e |-> "Function", params |-> params, retty |-> retty, body |-> body, method |-> method]
Param(name, t) == [name |-> name, t |-> t]
EBinary(left, op, right) == [e |-> "Binary", left |-> left, op |-> op, right |-> right]
EStruct(name, params, id) == [e |-> "Struct", name |-> name, params |-> params, id |-> id]
ETrait(name, params) == [e |-> "Trait", name |-> name, params |-> params]
\* args: the supplied fields, each a name and a value
EInitialization(left, args) == [e |-> "Initialization", left |-> left, args |-> args]
Field(name, value) == [name |-> name, value |-> value]

SExpr(expr) == [s |-> "Expression", expr |-> expr]
SVariable(t, name, right, public) ==
    [s |-> "Variable", t |-> t, name |-> name, right |-> right, public |-> public]
SReturn(value) == [s |-> "Return", value |-> value]
SBreak == [s |-> "Break"]
SSkip == [s |-> "Skip"]
SAssign(left, right) == [s |-> "Assignment", left |-> left, right |-> right]
SImport(path, specifics) == [s |-> "Import", path |-> path, specifics |-> specifics]
\* parent is ENone when the block names no trait
SImplement(target, body, parent) ==
    [s |-> "Implement", target |-> target, body |-> body, parent |-> parent]

(***************************************************************************)
(* The compared types: every node kind, nested one level, with the modes   *)
(* that element, parameter and member types can carry                      *)
(***************************************************************************)
RECURSIVE SeqsUpTo(_, _)
SeqsUpTo(S, n) ==
    IF n = 0 THEN {<<>>}
    ELSE LET shorter == SeqsUpTo(S, n - 1)
         IN shorter \cup {Append(q, x) : q \in {r \in shorter : Len(r) = n - 1}, x \in S}

Counts == 1..MaxCount
ModeU ==
    {Regular, Immutable, OptionalMode, Undeclared, Implemented, UnwrapMode(1), UnwrapMode(2),
     SplatMode(None)} \cup {SplatMode(c) : c \in Counts}

ElemT == {From(IntN), From(AnyN)} \cup {Type(IntN, SplatMode(c)) : c \in Counts}
ArrElemT == ElemT \cup {Type(IntN, Undeclared), Type(IntN, Implemented), From(OptionalN(AnyN))}
LeafU == {IntN, FloatN, BoolN, StrN, CharN, NilN, AnyN, ThisN, IdN(EId("x")), IdN(EId("y"))}
OptionalU == {OptionalN(n) : n \in {IntN, StrN, AnyN, NilN}}
ArrayU == {ArrayN(t, l) : t \in ArrElemT, l \in {None} \cup (0..MaxCount)}
\* element types of the compared Tuples, parameter types of the compared Funcs
TupleElemT ==
    {From(IntN), From(AnyN), Type(IntN, SplatMode(1)), Type(IntN, SplatMode(MaxCount))}
ParamT == {From(IntN), From(AnyN), Type(IntN, SplatMode(MaxCount))}
TupleU == {TupleN(q) : q \in SeqsUpTo(TupleElemT, MaxArity)}
FuncU ==
    {FuncN(q, From(IntN), FALSE) : q \in SeqsUpTo(ParamT, MaxArity)}
    \cup {FuncN(<<>>, From(r), m) : r \in {IntN, AnyN, NilN}, m \in BOOLEAN}

MemberT == {From(IntN), From(StrN), From(OptionalN(IntN)), Type(IntN, Implemented)}
MemberNames == {"m", "n"}
MemberMaps ==
    UNION {[D -> MemberT] : D \in SUBSET MemberNames}
StructU == {StructN("S", mm, id) : mm \in MemberMaps, id \in {"id1", "id2"}}
TraitU == {TraitN(n, mm) : n \in {"T"}, mm \in MemberMaps}
ModuleU == {ModuleN(EmptyMap, FALSE), ModuleN([n \in {"m"} |-> From(IntN)], TRUE)}
NamedU ==
    {StructN("S", EmptyMap, "id1"), StructN("R", EmptyMap, "id1"),
     TraitN("T", EmptyMap), TraitN("U", [n \in {"m"} |-> From(IntN)])}

SmallU == LeafU \cup OptionalU \cup ArrayU \cup ModuleU \cup NamedU
\* the nodes every Tuple and Func is compared with: the wildcards, and one node of each
\* other kind
FewU ==
    {AnyN, OptionalN(AnyN), OptionalN(IntN), IntN, NilN, ArrayN(From(IntN), None),
     TupleN(<<>>), FuncN(<<>>, From(IntN), FALSE)}
ShapeU == StructU \cup TraitU \cup {AnyN, OptionalN(AnyN)}

\* the operand pairs: nodes in Regular mode (Tuples with Tuples, Funcs with Funcs, both
\* with the nodes of FewU in either order, the other kinds with one another), and every
\* pair of modes on one node
PairU ==
    {<<From(x), From(y)>> : x \in SmallU, y \in SmallU}
    \cup {<<From(x), From(y)>> : x \in TupleU, y \in TupleU}
    \cup {<<From(x), From(y)>> : x \in FuncU, y \in FuncU}
    \cup {<<From(x), From(y)>> : x \in FewU, y \in TupleU \cup FuncU}
    \cup {<<From(x), From(y)>> : x \in TupleU \cup FuncU, y \in FewU}
    \cup {<<From(x), From(y)>> : x \in ShapeU, y \in ShapeU}
    \cup {<<Type(IntN, m1), Type(IntN, m2)>> : m1 \in ModeU, m2 \in ModeU}

NoVerdict == [op |-> "none", node |-> FALSE, mode |-> FALSE]

(***************************************************************************)
(* Visitor::new                                                            *)
(***************************************************************************)
NewSymTab ==
    [stack |-> <<EmptyMap>>, last |-> EmptyMap,
     implementations |-> EmptyMap, foreign_imports |-> EmptyMap]

\* HashMap::new() for import_map
NoImports == [pos \in {} |-> <<>>]
\* no import is being resolved
NoEnv == [root |-> <<>>, home |-> <<>>, set |-> FALSE, exists |-> {}, is_deep |-> FALSE]
NoModule == [pos |-> 0, result |-> [r |-> "none"]]

VisitorNew ==
    /\ symtab = NewSymTab
    /\ inside = <<>>
    /\ flag = [f |-> "None", some |-> FALSE, t |-> NoType]
    /\ method_calls = {}
    /\ module_content = EmptyMap
    /\ ast = <<>>
    /\ pass = 1
    /\ idx = 0
    /\ res = "ok"
    /\ at = 0
    /\ import_map = NoImports
    /\ outer = <<>>
    /\ env = NoEnv
    /\ module = NoModule

(***************************************************************************)
(* The Visitor as a value threaded through the traversal                   *)
(***************************************************************************)
\* no module can be resolved
NoFiles == [p \in {} |-> <<>>]

Vis ==
    [symtab |-> symtab, inside |-> inside, flag |-> flag, method_calls |-> method_calls,
     module_content |-> module_content, res |-> res, at |-> at, order |-> FALSE,
     files |-> NoFiles]

\* response!(Wrong(..), file, pos): the check stops with an error of this kind
Fail(v, kind, where) == [v EXCEPT !.res = kind, !.at = where]
\* panic!, unreachable!, unwrap on None, slice out of range: the process aborts
Panic(v) == [v EXCEPT !.res = "panic", !.at = 0]

TRes(v, t) == [v |-> v, t |-> t]

Push(v, frame) == [v EXCEPT !.inside = Append(@, frame)]
\* Vec::pop on the context stack (the popped value is dropped, None is ignored)
PopInside(v) ==
    IF Len(v.inside) = 0 THEN v ELSE [v EXCEPT !.inside = SubSeq(@, 1, Len(@) - 1)]
Contains(v, f) == \E i \in 1..Len(v.inside) : v.inside[i].f = f

Loop == [f |-> "Loop"]
FunctionFrame == [f |-> "Function"]
Nothing == [f |-> "Nothing"]
Calling == [f |-> "Calling"]
SplatFrame(c) == [f |-> "Splat", c |-> c]
ImplementFrame(t) == [f |-> "Implement", t |-> t]
ForeignModule(members) == [f |-> "ForeignModule", members |-> members]

(***************************************************************************)
(* SymTab                                                                  *)
(***************************************************************************)
PushScope(v) == [v EXCEPT !.symtab.stack = Append(@, EmptyMap)]
PutFrame(v, frame) == [v EXCEPT !.symtab.stack = Append(@, frame)]
PopScope(v) ==
    IF Len(v.symtab.stack) = 0 THEN Panic(v)
    ELSE [v EXCEPT !.symtab.last = v.symtab.stack[Len(v.symtab.stack)],
                   !.symtab.stack = SubSeq(@, 1, Len(@) - 1)]
Assign(v, name, t) ==
    IF Len(v.symtab.stack) = 0 THEN Panic(v)
    ELSE [v EXCEPT !.symtab.stack[Len(v.symtab.stack)] = MapPut(@, name, t)]
Bound(v, name) == \E i \in 1..Len(v.symtab.stack) : MapHas(v.symtab.stack[i], name)
\* innermost frame first
Fetch(v, name) ==
    LET i == CHOOSE j \in 1..Len(v.symtab.stack) :
                 /\ MapHas(v.symtab.stack[j], name)
                 /\ \A k \in (j + 1)..Len(v.symtab.stack) : ~MapHas(v.symtab.stack[k], name)
    IN v.symtab.stack[i][name]
IsImplemented(v, id, name) ==
    MapHas(v.symtab.implementations, id) /\ MapHas(v.symtab.implementations[id], name)
\* SymTab::implement(id, name, t)
Implement(v, id, name, t) ==
    [v EXCEPT !.symtab.implementations =
        MapPut(@, id, MapPut(IF MapHas(@, id) THEN @[id] ELSE EmptyMap, name, t))]
\* SymTab::import(name, content)
Import(v, name, content) == [v EXCEPT !.symtab.foreign_imports = MapPut(@, name, content)]
\* HashMap::extend: every key of other is inserted, replacing the value of a key present
Extend(map, other) ==
    [k \in (DOMAIN map) \cup (DOMAIN other) |-> IF k \in DOMAIN other THEN other[k] ELSE map[k]]
\* SymTab::from(content)
SymTabFrom(content) == [NewSymTab EXCEPT !.stack = <<content>>]

(***************************************************************************)
(* TypeNode::check_expression, Parser::fold_expression                     *)
(***************************************************************************)
\* literals and names fold to themselves
FoldExpression(e) == e

RECURSIVE CheckExpression(_, _)
CheckExpression(node, e) ==
    IF e.e = "Int" THEN node.k \in {"Int", "Float"}
    ELSE IF e.e = "Array" THEN
        /\ node.k = "Array"
        /\ (node.len # None => node.len = Len(e.content))
        /\ \A i \in 1..Len(e.content) : CheckExpression(node.elem.node, e.content[i])
    ELSE FALSE

(***************************************************************************)
(* Visitor::ensure_no_implicit                                             *)
(***************************************************************************)
RECURSIVE EnsureNoImplicit(_)
EnsureNoImplicit(e) ==
    IF e.e = "Block" THEN
        IF Len(e.stmts) = 0 THEN TRUE
        ELSE LET last == e.stmts[Len(e.stmts)]
             IN IF last.s # "Expression" THEN TRUE
                ELSE IF last.expr.e = "Call" THEN TRUE
                ELSE IF last.expr.e = "Block" THEN EnsureNoImplicit(last.expr)
                ELSE IF last.expr.e \in {"If", "While", "For"} THEN EnsureNoImplicit(last.expr.body)
                ELSE FALSE
    ELSE IF e.e = "Call" THEN TRUE
    ELSE IF e.e \in {"If", "While", "For"} THEN EnsureNoImplicit(e.body)
    ELSE FALSE

(***************************************************************************)
(* Visitor::deid, Visitor::type_expression, Visitor::type_statement        *)
(***************************************************************************)
\* a method call on the Visitor: the callee is chosen by name, as the recursive methods
\* of impl Visitor call one another
RECURSIVE Invoke(_)
Deid(v, t) == Invoke(<<"deid", v, t>>)
DeidAll(v, ts, i, acc) == Invoke(<<"deid_all", v, ts, i, acc>>)
TypeExpression(v, e) == Invoke(<<"type_expression", v, e>>)
TypeMatch(v, e) == Invoke(<<"type_match", v, e>>)
TypeIndex(v, e) == Invoke(<<"type_index", v, e>>)
TypeBlock(v, e) == Invoke(<<"type_block", v, e>>)
TypeBlockLoop(v, stmts, i) == Invoke(<<"type_block_loop", v, stmts, i>>)
TypeStatement(v, st) == Invoke(<<"type_statement", v, st>>)
TypeAll(v, es, i, acc) == Invoke(<<"type_all", v, es, i, acc>>)
VisitStatement(v, st) == Invoke(<<"visit_statement", v, st>>)
VisitExpression(v, e) == Invoke(<<"visit_expression", v, e>>)
VisitVariable(v, st, is_splat) == Invoke(<<"visit_variable", v, st, is_splat>>)
VisitBlock(v, content, ensure_implicits, module_level) == Invoke(<<"visit_block", v, content, ensure_implicits, module_level>>)
VisitBlockStep(v, content, i, ensure_implicits, module_level) == Invoke(<<"visit_block_step", v, content, i, ensure_implicits, module_level>>)
VisitBlockFrom(v, content, i, ensure_implicits, module_level) == Invoke(<<"visit_block_from", v, content, i, ensure_implicits, module_level>>)
VisitBlockPass2(v, content, i, module_level) == Invoke(<<"visit_block_pass2", v, content, i, module_level>>)
VisitBlockPass2Step(v, st, module_level) == Invoke(<<"visit_block_pass2_step", v, st, module_level>>)
VisitCall(v, e) == Invoke(<<"visit_call", v, e>>)
CallParams(v, params, args, i, actual) == Invoke(<<"call_params", v, params, args, i, actual>>)
CallSplats(v, last, args, i) == Invoke(<<"call_splats", v, last, args, i>>)
CallFinish(v, e, params, actual) == Invoke(<<"call_finish", v, e, params, actual>>)
VisitFunction(v, e) == Invoke(<<"visit_function", v, e>>)
VisitIndex(v, e) == Invoke(<<"visit_index", v, e>>)
VisitWhile(v, e) == Invoke(<<"visit_while", v, e>>)
VisitArray(v, e) == Invoke(<<"visit_array", v, e>>)
FunctionParams(v, params, i, found, frame) == Invoke(<<"function_params", v, params, i, found, frame>>)
ParamHash(v, params, i, acc) == Invoke(<<"param_hash", v, params, i, acc>>)
InitializationArgs(v, content, args, i) == Invoke(<<"initialization_args", v, content, args, i>>)
VisitInitialization(v, e) == Invoke(<<"visit_initialization", v, e>>)
ImplementMethods(v, body, i, struct_name, new_content, id, kind) == Invoke(<<"implement_methods", v, body, i, struct_name, new_content, id, kind>>)
ImplementBodies(v, body, i) == Invoke(<<"implement_bodies", v, body, i>>)
VisitImplementBlock(v, body, struct_name, new_content, id, kind) == Invoke(<<"visit_implement_block", v, body, struct_name, new_content, id, kind>>)
VisitImplement(v, st) == Invoke(<<"visit_implement", v, st>>)
VisitImport(v, st) == Invoke(<<"visit_import", v, st>>)
TypeBinary(v, e) == Invoke(<<"type_binary", v, e>>)
VisitIfElses(v, body_type, elses, i) == Invoke(<<"visit_if_elses", v, body_type, elses, i>>)
VisitIf(v, e) == Invoke(<<"visit_if", v, e>>)

\* the ForeignModule frame nearest the top of the context stack, 0 if none
ForeignFrame(v) ==
    IF \E i \in 1..Len(v.inside) : v.inside[i].f = "ForeignModule"
    THEN CHOOSE i \in 1..Len(v.inside) :
            /\ v.inside[i].f = "ForeignModule"
            /\ \A j \in (i + 1)..Len(v.inside) : v.inside[j].f # "ForeignModule"
    ELSE 0

\* a throwaway Visitor seeded with the members of a foreign module
ForeignVisitor(v, members) ==
    [v EXCEPT !.symtab = SymTabFrom(members), !.inside = <<>>, !.flag = [f |-> "None", some |-> FALSE, t |-> NoType],
              !.method_calls = {}, !.module_content = EmptyMap]

\* deid that leaves a resolved Id the mode of the type it resolved to
deid_ResolvedMode(v, t) ==
    IF v.res # "ok" THEN TRes(v, NoType)
    ELSE IF t.node.k = "Optional" THEN
        LET r == Deid(v, From(t.node.inner))
        IN TRes(r.v, Type(OptionalN(r.t.node), t.mode))
    ELSE IF t.node.k = "Id" THEN
        IF ForeignFrame(v) # 0 THEN
            LET r == TypeExpression(ForeignVisitor(v, v.inside[ForeignFrame(v)].members),
                                    t.node.expr)
            IN IF r.v.res # "ok" THEN TRes(Fail(v, r.v.res, r.v.at), NoType)
               ELSE TRes(v, r.t)
        ELSE TypeExpression(v, t.node.expr)
    ELSE IF t.node.k = "Func" THEN
        LET ps == DeidAll(v, t.node.params, 1, <<>>)
            r == Deid(ps.v, t.node.ret)
        IN TRes(r.v, Type(FuncN(ps.ts, r.t, t.node.method), t.mode))
    ELSE TRes(v, t)

deid(v, t) ==
    IF v.res # "ok" THEN TRes(v, NoType)
    ELSE IF t.node.k = "Optional" THEN
        LET r == Deid(v, From(t.node.inner))
        IN TRes(r.v, Type(OptionalN(r.t.node), t.mode))
    ELSE IF t.node.k = "Id" THEN
        IF ForeignFrame(v) # 0 THEN
            LET r == TypeExpression(ForeignVisitor(v, v.inside[ForeignFrame(v)].members),
                                    t.node.expr)
            IN IF r.v.res # "ok" THEN TRes(Fail(v, r.v.res, r.v.at), NoType)
               ELSE TRes(v, Type(r.t.node, t.mode))
        ELSE
            LET r == TypeExpression(v, t.node.expr)
            IN TRes(r.v, Type(r.t.node, t.mode))
    ELSE IF t.node.k = "Func" THEN
        LET ps == DeidAll(v, t.node.params, 1, <<>>)
            r == Deid(ps.v, t.node.ret)
        IN TRes(r.v, Type(FuncN(ps.ts, r.t, t.node.method), t.mode))
    ELSE TRes(v, t)

\* deid of each type of a list, in order
deid_all(v, ts, i, acc) ==
    IF v.res # "ok" \/ i > Len(ts) THEN [v |-> v, ts |-> acc]
    ELSE LET r == Deid(v, ts[i]) IN DeidAll(r.v, ts, i + 1, Append(acc, r.t))

\* type_expression of each expression of a list, in order
type_all(v, es, i, acc) ==
    IF v.res # "ok" \/ i > Len(es) THEN [v |-> v, ts |-> acc]
    ELSE LET r == TypeExpression(v, es[i]) IN TypeAll(r.v, es, i + 1, Append(acc, r.t))

ParamTypes(params) == [i \in 1..Len(params) |-> params[i].t]

\* the first Implement frame from the bottom of the context stack, 0 if none
ImplementFrameAt(v) ==
    IF \E i \in 1..Len(v.inside) : v.inside[i].f = "Implement"
    THEN CHOOSE i \in 1..Len(v.inside) :
            /\ v.inside[i].f = "Implement"
            /\ \A j \in 1..(i - 1) : v.inside[j].f # "Implement"
    ELSE 0

Early(r) == [v |-> r.v, t |-> r.t, early |-> TRUE]
Late(v, t) == [v |-> v, t |-> t, early |-> FALSE]

\* type_expression (Index)
type_index(v, e) ==
    LET a == TypeExpression(v, e.left)
        kind == IF a.t.mode.m = "Splat" THEN From(ArrayN(From(a.t.node), None)) ELSE a.t
        node == kind.node
        isId == e.index.e = "Identifier"
        name == e.index.name
    IN IF a.v.res # "ok" THEN Late(a.v, NoType)
       ELSE IF node.k = "Array" THEN Late(a.v, node.elem)
       ELSE IF node.k = "Any" THEN Late(a.v, Type(AnyN, kind.mode))
       ELSE IF node.k \in {"Module", "Trait"} THEN
            IF ~isId THEN Late(Panic(a.v), NoType)
            ELSE IF MapHas(node.members, name) THEN Late(a.v, node.members[name])
            ELSE Late(Fail(a.v, "NoSuchMember", 0), NoType)
       ELSE IF node.k = "Struct" THEN
            IF ~isId THEN Late(Panic(a.v), NoType)
            ELSE IF IsImplemented(a.v, node.id, name)
                THEN Late(a.v, a.v.symtab.implementations[node.id][name])
            ELSE IF ~MapHas(node.members, name) THEN Late(Fail(a.v, "NoSuchMember", 0), NoType)
            ELSE LET kind2 == node.members[name]
                 IN IF ModeStrongCmp(kind.mode, Undeclared) /\ kind2.node.k = "Func" /\ kind2.node.method
                        THEN Late(Fail(a.v, "IllegalAccess", 0), NoType)
                    ELSE IF ModeStrongCmp(kind.mode, Undeclared) /\ ~ModeStrongCmp(kind2.mode, Implemented)
                        THEN Late(Fail(a.v, "IllegalAccess", 0), NoType)
                    ELSE Late(a.v, kind2)
       ELSE Late(Fail(a.v, "NotIndexable", 0), NoType)

\* the loop over the statements of a typed block: nested constructs and returns
type_block_loop(v, stmts, i) ==
    IF v.res # "ok" \/ i > Len(stmts) THEN v
    ELSE LET st == stmts[i]
         IN IF st.s = "Expression" /\ st.expr.e \in {"Function", "Block", "If", "While", "For"}
                THEN TypeBlockLoop(TypeExpression(v, st.expr).v, stmts, i + 1)
            ELSE IF st.s = "Return" /\ v.flag.f = "Block" THEN
                LET r == IF st.value.e = "None" THEN TRes(v, From(NilN))
                         ELSE TypeExpression(v, st.value)
                IN IF r.v.res # "ok" THEN r.v
                   ELSE IF v.flag.some THEN
                        IF ~TypeEq(r.t, v.flag.t) THEN Fail(r.v, "MismatchedType", 0)
                        ELSE TypeBlockLoop(r.v, stmts, i + 1)
                   ELSE TypeBlockLoop([r.v EXCEPT !.flag = [f |-> "Block", some |-> TRUE, t |-> r.t]],
                                      stmts, i + 1)
            ELSE TypeBlockLoop(v, stmts, i + 1)

\* type_expression (Block)
type_block(v, e) ==
    LET flag_backup == v.flag
        v1 == IF v.flag.f = "None"
              THEN [v EXCEPT !.flag = [f |-> "Block", some |-> FALSE, t |-> NoType]] ELSE v
        v2 == PushScope(v1)
    IN IF Len(e.stmts) = 0 THEN TRes([PopScope(v2) EXCEPT !.flag = flag_backup], From(NilN))
       ELSE LET v3 == TypeBlockLoop(v2, e.stmts, 1)
                v4 == PutFrame(v3, v3.symtab.last)
                r == TypeStatement(v4, e.stmts[Len(e.stmts)])
                v5 == PopScope(r.v)
            IN IF v3.res # "ok" THEN TRes(v3, NoType)
               ELSE IF r.v.res # "ok" THEN TRes(r.v, NoType)
               ELSE IF v5.flag.f = "Block" /\ v5.flag.some
                       /\ ~NodeEq(r.t.node, v5.flag.t.node)
                    THEN TRes(Fail(v5, "MismatchedType", 0), NoType)
               ELSE TRes([PopScope(v5) EXCEPT !.flag = flag_backup], r.t)

type_statement(v, st) ==
    IF st.s = "Expression" THEN TypeExpression(v, st.expr)
    ELSE IF st.s = "Return" /\ st.value.e # "None" THEN TypeExpression(v, st.value)
    ELSE TRes(v, From(NilN))

\* the match of type_expression; early marks the `return` of the `Self` arm
type_match(v, e) ==
    IF e.e = "Identifier" THEN
        IF e.name = "Self" /\ ImplementFrameAt(v) # 0
            THEN Early(Deid(v, v.inside[ImplementFrameAt(v)].t))
        ELSE IF ~Bound(v, e.name) THEN Late(Fail(v, "NameNotFound", 0), NoType)
        ELSE LET r == Deid(v, Fetch(v, e.name)) IN Late(r.v, r.t)
    ELSE IF e.e = "Str" THEN Late(v, From(StrN))
    ELSE IF e.e = "Bool" THEN Late(v, From(BoolN))
    ELSE IF e.e = "Int" THEN Late(v, From(IntN))
    ELSE IF e.e = "Float" THEN Late(v, From(FloatN))
    ELSE IF e.e = "Array" THEN
        IF Len(e.content) = 0 THEN Late(v, From(ArrayN(From(AnyN), 0)))
        ELSE LET r == TypeExpression(v, e.content[1])
             IN Late(r.v, From(ArrayN(r.t, Len(e.content))))
    ELSE IF e.e = "Index" THEN TypeIndex(v, e)
    ELSE IF e.e = "Binary" THEN TypeBinary(v, e)
    ELSE IF e.e = "If" THEN LET r == TypeExpression(v, e.body) IN Late(r.v, r.t)
    ELSE IF e.e = "Call" THEN
        LET r == TypeExpression(v, e.callee)
        IN IF r.v.res # "ok" THEN Late(r.v, NoType)
           ELSE IF r.t.node.k = "Func" THEN Late(r.v, r.t.node.ret)
           ELSE Late(Panic(r.v), NoType)
    ELSE IF e.e = "Function" THEN
        LET ps == DeidAll(v, ParamTypes(e.params), 1, <<>>)
            r == Deid(ps.v, e.retty)
        IN Late(r.v, From(FuncN(ps.ts, r.t, e.method)))
    ELSE IF e.e = "Block" THEN LET r == TypeBlock(v, e) IN Late(r.v, r.t)
    ELSE IF e.e = "Initialization" THEN
        LET r == TypeExpression(v, e.left) IN Late(r.v, From(r.t.node))
    ELSE IF e.e = "Struct" THEN
        LET h == ParamHash(v, e.params, 1, EmptyMap)
        IN Late(h.v, Type(StructN(e.name, h.members, e.id), Undeclared))
    ELSE IF e.e = "Trait" THEN
        LET h == ParamHash(v, e.params, 1, EmptyMap)
        IN Late(h.v, From(TraitN(e.name, h.members)))
    ELSE Late(v, From(NilN))

type_expression(v, e) ==
    IF v.res # "ok" THEN TRes(v, NoType)
    ELSE LET r == TypeMatch(v, e)
         IN IF r.v.res # "ok" THEN TRes(r.v, NoType)
            ELSE IF r.early THEN TRes(r.v, r.t)
            ELSE Deid(r.v, r.t)

(***************************************************************************)
(* Visitor::visit_expression                                               *)
(***************************************************************************)
\* visit_expression (While)
visit_while(v, e) ==
    LET v1 == VisitExpression(v, e.cond)
        c == TypeExpression(v1, e.cond)
        v2 == Push(c.v, Loop)
        v3 == VisitExpression(v2, e.body)
        b == TypeExpression(v3, e.body)
    IN IF c.v.res # "ok" THEN c.v
       ELSE IF ~NodeEq(c.t.node, BoolN) THEN Fail(c.v, "MismatchedType", 0)
       ELSE IF b.v.res # "ok" THEN b.v
       ELSE IF ~NodeEq(b.t.node, NilN) THEN
            IF e.body.e = "Block" /\ Len(e.body.stmts) > 0
            THEN Fail(b.v, "MismatchedType", 0) ELSE Panic(b.v)
       ELSE PopInside(b.v)

\* visit_expression (Array)
visit_array(v, e) ==
    IF Len(e.content) = 0 THEN v
    ELSE LET t == TypeExpression(v, e.content[1])
             ts == TypeAll(t.v, e.content, 1, <<>>)
         IN IF ts.v.res # "ok" THEN ts.v
            ELSE IF \E i \in 1..Len(e.content) :
                        /\ ~CheckExpression(t.t.node, FoldExpression(e.content[i]))
                        /\ ~NodeEq(t.t.node, ts.ts[i].node)
                THEN Fail(ts.v, "MismatchedType", 0)
            ELSE ts.v

\* visit_expression (Index)
visit_index(v, e) ==
    LET l == TypeExpression(v, e.left)
        left_type == IF l.t.mode.m = "Splat" THEN From(ArrayN(From(l.t.node), None)) ELSE l.t
        node == left_type.node
        isId == e.index.e = "Identifier"
    IN IF l.v.res # "ok" THEN l.v
       ELSE IF node.k = "Array" THEN
            LET v1 == VisitExpression(Push(l.v, Nothing), e.index)
                i == TypeExpression(v1, e.index)
                folded == FoldExpression(e.index)
            IN IF i.v.res # "ok" THEN i.v
               ELSE IF i.t.node.k # "Int" THEN Fail(i.v, "NotIndexable", 0)
               ELSE IF folded.e = "Int" /\ node.len # None
                       /\ (folded.v < 0 \/ folded.v > node.len)
                    THEN Fail(i.v, "IndexOutOfBounds", 0)
               ELSE i.v
       ELSE IF node.k = "Module" THEN
            LET v1 == Push(l.v, Nothing)
                v2 == IF node.foreign THEN Push(v1, ForeignModule(node.members)) ELSE v1
            IN IF isId THEN
                    IF ~MapHas(node.members, e.index.name) THEN Fail(v2, "NoSuchMember", 0)
                    ELSE IF node.foreign THEN PopInside(v2) ELSE v2
               ELSE LET i == TypeExpression(v2, e.index)
                    IN IF i.v.res # "ok" THEN i.v ELSE Fail(i.v, "NotIndexable", 0)
       ELSE IF node.k = "Struct" THEN
            LET v1 == Push(l.v, ImplementFrame(left_type))
            IN IF isId THEN
                    IF ~MapHas(node.members, e.index.name)
                          /\ ~IsImplemented(v1, node.id, e.index.name)
                    THEN Fail(v1, "NoSuchMember", 0) ELSE v1
               ELSE LET i == TypeExpression(v1, e.index)
                    IN IF i.v.res # "ok" THEN i.v ELSE Fail(i.v, "NotIndexable", 0)
       ELSE IF node.k = "Trait" THEN
            IF isId THEN
                IF ~MapHas(node.members, e.index.name) THEN Fail(l.v, "NoSuchMember", 0) ELSE l.v
            ELSE LET i == TypeExpression(l.v, e.index)
                 IN IF i.v.res # "ok" THEN i.v ELSE Fail(i.v, "NotIndexable", 0)
       ELSE IF node.k = "Any" THEN l.v
       ELSE Fail(l.v, "NotIndexable", 0)

\* the argument test without the literal fast path
ArgMatches_TypeOnly(param_node, arg, arg_node) == NodeEq(arg_node, param_node)

\* the test of one argument against its parameter: literal fast path, or `==` on the nodes
ArgMatches(param_node, arg, arg_node) ==
    CheckExpression(param_node, FoldExpression(arg)) \/ NodeEq(arg_node, param_node)

\* the loop over the declared parameters of a call; actual is actual_arg_len
call_params(v, params, args, i, actual) ==
    IF v.res # "ok" \/ i > Len(params) THEN [v |-> v, actual |-> actual]
    ELSE LET p == Deid(v, params[i])
         IN IF p.v.res # "ok" THEN [v |-> p.v, actual |-> actual]
            ELSE IF Len(args) < i
                THEN [v |-> Fail(p.v, "MismatchedArgumentCount", 0), actual |-> actual]
            ELSE LET v1 == VisitExpression(p.v, args[i])
                     a == TypeExpression(v1, args[i])
                     v2 == VisitExpression(a.v, args[i])
                     a2 == TypeExpression(v2, args[i])
                 IN IF a.v.res # "ok" THEN [v |-> a.v, actual |-> actual]
                    ELSE IF ~ArgMatches(p.t.node, args[i], a.t.node)
                        THEN [v |-> Fail(a.v, "MismatchedType", i), actual |-> actual]
                    ELSE IF a2.v.res # "ok" THEN [v |-> a2.v, actual |-> actual]
                    ELSE CallParams(a2.v, params, args, i + 1,
                                    IF a2.t.mode.m = "Unwrap" THEN actual + a2.t.mode.c ELSE actual)

\* the loop over the arguments beyond the declared parameters
call_splats(v, last, args, i) ==
    IF v.res # "ok" \/ i > Len(args) THEN v
    ELSE LET v1 == VisitExpression(v, args[i])
             a == TypeExpression(v1, args[i])
         IN IF a.v.res # "ok" THEN a.v
            ELSE IF ~CheckExpression(last.node, args[i]) /\ ~NodeEq(last.node, a.t.node)
                THEN Fail(a.v, "MismatchedSplatArgument", i)
            ELSE CallSplats(a.v, last, args, i + 1)

\* the part of a call after the loop over the parameters
call_finish(v, e, params, actual) ==
    LET n == Len(params)
        last == Deid(v, params[n])
        v1 == IF last.t.mode.m = "Splat" THEN CallSplats(last.v, last.t, e.args, n + 1)
              ELSE last.v
        v2 == IF actual > n THEN Push(v1, SplatFrame(actual - n)) ELSE v
        v3 == PopInside(VisitExpression(v2, e.callee))
    IN IF actual > n /\ n = 0 THEN Panic(v)
       ELSE IF actual > n /\ v1.res # "ok" THEN v1
       ELSE IF v3.res # "ok" THEN v3
       ELSE IF actual # n /\ params[n].mode.m # "Splat"
            THEN Fail(v3, "MismatchedArgumentCount", 0)
       ELSE v3

\* visit_expression (Call)
visit_call(v, e) ==
    LET v1 == Push(VisitExpression(v, e.callee), Calling)
        f == TypeExpression(v1, e.callee)
        v2 == IF f.t.node.method
              THEN [f.v EXCEPT !.method_calls = @ \cup {e.callee}] ELSE f.v
        ps == CallParams(v2, f.t.node.params, e.args, 1, Len(e.args))
    IN IF v1.res # "ok" THEN v1
       ELSE IF f.v.res # "ok" THEN f.v
       ELSE IF f.t.node.k # "Func" THEN f.v
       ELSE IF ps.v.res # "ok" THEN ps.v
       ELSE CallFinish(ps.v, e, f.t.node.params, ps.actual)

\* the loop over the parameters of a function literal: at most one splat, frame_hash
function_params(v, params, i, found, frame) ==
    IF v.res # "ok" \/ i > Len(params) THEN [v |-> v, frame |-> frame]
    ELSE IF params[i].t.mode.m = "Splat" /\ found
        THEN [v |-> Fail(v, "MultipleSplatParameters", 0), frame |-> frame]
    ELSE LET r == Deid(v, params[i].t)
         IN FunctionParams(r.v, params, i + 1, found \/ params[i].t.mode.m = "Splat",
                           MapPut(frame, params[i].name, r.t))

\* visit_expression (Function)
visit_function(v, e) ==
    LET r0 == Deid(v, e.retty)
        isId == e.retty.node.k = "Id"
        v1 == IF isId THEN VisitExpression(r0.v, e.retty.node.expr) ELSE r0.v
        it == IF isId THEN TypeExpression(v1, e.retty.node.expr) ELSE TRes(v1, r0.t)
        return_type == From(it.t.node)
        ps == FunctionParams(it.v, e.params, 1, FALSE, EmptyMap)
        v2 == Push(PutFrame(ps.v, ps.frame), FunctionFrame)
        v3 == VisitExpression(v2, e.body)
        b == TypeExpression(v3, e.body)
        v4 == PopScope(PopInside(b.v))
    IN IF it.v.res # "ok" THEN it.v
       ELSE IF isId /\ it.t.node.k \notin {"Struct", "Trait"} THEN Fail(it.v, "MismatchedType", 0)
       ELSE IF ps.v.res # "ok" THEN ps.v
       ELSE IF e.method /\ ~Contains(ps.v, "Implement")
            THEN Fail(ps.v, "MethodOutsideImplementation", 0)
       ELSE IF b.v.res # "ok" THEN b.v
       ELSE IF v4.res # "ok" THEN v4
       ELSE IF ~NodeEq(return_type.node, b.t.node) THEN Fail(v4, "MismatchedReturnType", 0)
       ELSE v4

visit_expression(v, e) ==
    IF v.res # "ok" THEN v
    ELSE IF e.e = "Identifier" THEN
        IF e.name = "Self" /\ Contains(v, "Implement") THEN v
        ELSE LET v1 == IF MapHas(v.symtab.foreign_imports, e.name)
                       THEN Push(v, ForeignModule(v.symtab.foreign_imports[e.name])) ELSE v
             IN IF Bound(v1, e.name) THEN v1 ELSE Fail(v1, "NameNotFound", 0)
    ELSE IF e.e = "Block" THEN
        LET v1 == VisitBlock(PushScope(v), e.stmts, TRUE, FALSE)
        IN IF v1.res # "ok" THEN v1 ELSE PopScope(v1)
    ELSE IF e.e = "While" THEN VisitWhile(v, e)
    ELSE IF e.e = "If" THEN VisitIf(v, e)
    ELSE IF e.e = "Array" THEN VisitArray(v, e)
    ELSE IF e.e = "Call" THEN VisitCall(v, e)
    ELSE IF e.e = "Function" THEN VisitFunction(v, e)
    ELSE IF e.e = "Index" THEN VisitIndex(v, e)
    ELSE IF e.e = "Binary" THEN VisitExpression(VisitExpression(v, e.left), e.right)
    ELSE IF e.e = "Initialization" THEN VisitInitialization(v, e)
    ELSE IF e.e \in {"Struct", "Trait"} THEN
        IF \E i, j \in 1..Len(e.params) : i < j /\ e.params[i].name = e.params[j].name
        THEN Fail(v, "DuplicateField", 0) ELSE v
    ELSE v

(***************************************************************************)
(* Visitor::visit_variable, Visitor::visit_statement, Visitor::visit_block *)
(***************************************************************************)
IsFunctionDecl(st) == st.s = "Variable" /\ st.right.e = "Function"

\* Visitor::new for the parsed source of an imported module
NewVisitor(v) ==
    [v EXCEPT !.symtab = NewSymTab, !.inside = <<>>,
              !.flag = [f |-> "None", some |-> FALSE, t |-> NoType],
              !.method_calls = {}, !.module_content = EmptyMap, !.res = "ok", !.at = 0]

\* the loop over the names an import statement lists
RECURSIVE ImportSpecifics(_, _, _)
ImportSpecifics(v, specifics, content_type) ==
    IF Len(specifics) = 0 THEN v
    ELSE LET name == specifics[1]
         IN ImportSpecifics(Assign(Import(v, name, content_type), name, content_type[name]),
                            Tail(specifics), content_type)

\* the loop over the members of the parent trait; the HashMap yields them in some order,
\* v.order tells whether a member missing from the struct comes before a differing one
Conformance(v, content, content_b) ==
    LET missing == {n \in DOMAIN content_b : ~MapHas(content, n)}
        differing == {n \in DOMAIN content_b :
                        MapHas(content, n) /\ ~NodeEq(content_b[n].node, content[n].node)}
    IN IF missing = {} /\ differing = {} THEN v
       ELSE IF differing = {} \/ (missing # {} /\ v.order) THEN Fail(v, "MissingTraitMethod", 0)
       ELSE Fail(v, "MismatchedTraitMethodType", 0)

Deferred == {"Function", "Block", "If", "While", "For"}

visit_variable(v, st, is_splat) ==
    LET isId == st.t.node.k = "Id"
        it == IF isId THEN TypeExpression(v, st.t.node.expr) ELSE TRes(v, st.t)
        variable_type == From(it.t.node)
        right == st.right
        v1 == IF right.e \in Deferred THEN it.v
              ELSE IF right.e \in {"Struct", "Trait"} THEN Assign(it.v, st.name, From(AnyN))
              ELSE VisitExpression(it.v, right)
        r == TypeExpression(v1, right)
        right_type == IF is_splat THEN Type(r.t.node, Regular) ELSE r.t
        v2 == IF ~StrongCmp(variable_type.node, NilN)
              THEN IF ~CheckExpression(variable_type.node, FoldExpression(right))
                      /\ ~NodeEq(variable_type.node, right_type.node)
                   THEN Fail(r.v, "MismatchedType", 0)
                   ELSE Assign(r.v, st.name, variable_type)
              ELSE Assign(r.v, st.name, right_type)
    IN IF st.name = "Self" THEN Fail(v, "IllegalShadow", 0)
       ELSE IF it.v.res # "ok" THEN it.v
       ELSE IF isId /\ it.t.node.k # "Struct" THEN Fail(it.v, "MismatchedType", 0)
       ELSE IF right.e = "None" THEN Assign(it.v, st.name, variable_type)
       ELSE IF r.v.res # "ok" THEN r.v
       ELSE IF right.e \in (Deferred \cup {"Struct", "Trait"}) THEN VisitExpression(v2, right)
       ELSE v2

visit_statement(v, st) ==
    IF v.res # "ok" THEN v
    ELSE IF st.s = "Expression" THEN VisitExpression(v, st.expr)
    ELSE IF st.s = "Variable" THEN VisitVariable(v, st, FALSE)
    ELSE IF st.s = "Return" THEN
        IF Contains(v, "Function")
        THEN IF st.value.e = "None" THEN v ELSE VisitExpression(v, st.value)
        ELSE Fail(v, "IllegalControlFlow", 0)
    ELSE IF st.s \in {"Break", "Skip"} THEN
        IF Contains(v, "Loop") THEN v ELSE Fail(v, "IllegalControlFlow", 0)
    ELSE IF st.s = "Assignment" THEN
        LET v1 == VisitExpression(VisitExpression(v, st.left), st.right)
            a == TypeExpression(v1, st.left)
            b == TypeExpression(a.v, st.right)
        IN IF b.v.res # "ok" THEN b.v
           ELSE IF ~TypeEq(a.t, b.t) THEN Fail(b.v, "MismatchedType", 0)
           ELSE b.v
    ELSE IF st.s = "Implement" THEN VisitImplement(v, st)
    ELSE IF st.s = "Import" THEN VisitImport(v, st)
    ELSE v

Export(v, name, t) == [v EXCEPT !.module_content = MapPut(@, name, t)]

\* one iteration of the first loop that visits a function-valued declaration at once
visit_block_step_Eager(v, content, i, ensure_implicits, module_level) ==
    LET st == content[i]
        v1 == VisitStatement(v, st)
        t == TypeExpression(v1, st.right)
        v2 == IF st.s # "Variable" THEN v
              ELSE IF st.right.e = "None"
                  THEN IF module_level THEN Export(v, st.name, st.t) ELSE v
              ELSE IF t.v.res = "ok" /\ module_level THEN Export(t.v, st.name, t.t)
              ELSE t.v
    IN IF v.res # "ok" THEN v
       ELSE IF v2.res # "ok" THEN v2
       ELSE IF ensure_implicits /\ i < Len(content) /\ st.s = "Expression"
               /\ ~EnsureNoImplicit(st.expr)
            THEN Fail(v2, "UnexpectedImplicitExpression", 0)
       ELSE VisitStatement(v2, st)

\* one iteration of the first loop of visit_block
visit_block_step(v, content, i, ensure_implicits, module_level) ==
    LET st == content[i]
        sig == DeidAll(v, ParamTypes(st.right.params), 1, <<>>)
        v1 == VisitStatement(v, st)
        t == TypeExpression(v1, st.right)
        v2 == IF st.s # "Variable" THEN v
              ELSE IF st.right.e = "None"
                  THEN IF module_level THEN Export(v, st.name, st.t) ELSE v
              ELSE IF t.v.res = "ok" /\ module_level THEN Export(t.v, st.name, t.t)
              ELSE t.v
    IN IF v.res # "ok" THEN v
       ELSE IF IsFunctionDecl(st) THEN
            IF sig.v.res # "ok" THEN sig.v
            ELSE Assign(sig.v, st.name, From(FuncN(sig.ts, st.right.retty, st.right.method)))
       ELSE IF v2.res # "ok" THEN v2
       ELSE IF ensure_implicits /\ i < Len(content) /\ st.s = "Expression"
               /\ ~EnsureNoImplicit(st.expr)
            THEN Fail(v2, "UnexpectedImplicitExpression", 0)
       ELSE VisitStatement(v2, st)

\* the first loop of visit_block from statement i on
visit_block_from(v, content, i, ensure_implicits, module_level) ==
    IF v.res # "ok" \/ i > Len(content) THEN v
    ELSE VisitBlockFrom(VisitBlockStep(v, content, i, ensure_implicits, module_level),
                        content, i + 1, ensure_implicits, module_level)

\* one iteration of the second loop of visit_block
visit_block_pass2_step(v, st, module_level) ==
    IF v.res # "ok" \/ ~IsFunctionDecl(st) THEN v
    ELSE LET v1 == VisitStatement(v, st)
             t == TypeExpression(v1, st.right)
         IN IF t.v.res # "ok" THEN t.v
            ELSE IF module_level /\ st.public THEN Export(t.v, st.name, t.t)
            ELSE t.v

visit_block_pass2(v, content, i, module_level) ==
    IF v.res # "ok" \/ i > Len(content) THEN v
    ELSE VisitBlockPass2(VisitBlockPass2Step(v, content[i], module_level),
                         content, i + 1, module_level)

visit_block(v, content, ensure_implicits, module_level) ==
    VisitBlockPass2(VisitBlockFrom(v, content, 1, ensure_implicits, module_level),
                    content, 1, module_level)

\* type_expression (Struct, Trait): param_hash, the members by name
param_hash(v, params, i, acc) ==
    IF v.res # "ok" \/ i > Len(params) THEN [v |-> v, members |-> acc]
    ELSE LET r == Deid(v, params[i].t)
         IN ParamHash(r.v, params, i + 1, MapPut(acc, params[i].name, From(r.t.node)))

\* visit_expression (Initialization): the loop over the supplied fields
initialization_args(v, content, args, i) ==
    IF v.res # "ok" \/ i > Len(args) THEN v
    ELSE LET v1 == VisitExpression(v, args[i].value)
             a == TypeExpression(v1, args[i].value)
         IN IF a.v.res # "ok" THEN a.v
            ELSE IF ~MapHas(content, args[i].name) THEN Fail(a.v, "NoSuchMember", i)
            ELSE IF ~CheckExpression(content[args[i].name].node, FoldExpression(args[i].value))
                    /\ ~TypeEq(a.t, content[args[i].name])
                THEN Fail(a.v, "MismatchedType", i)
            ELSE InitializationArgs(a.v, content, args, i + 1)

\* visit_expression (Initialization) without the lookup in the implementation registry
visit_initialization_NoRegistry(v, e) ==
    LET s == TypeExpression(v, e.left)
        content == s.t.node.members
        v1 == InitializationArgs(s.v, content, e.args, 1)
        validation_map == {e.args[i].name : i \in 1..Len(e.args)}
    IN IF s.v.res # "ok" THEN s.v
       ELSE IF s.t.node.k # "Struct" \/ ~ModeStrongCmp(s.t.mode, Undeclared)
            THEN Fail(s.v, "CannotInitialize", 0)
       ELSE IF v1.res # "ok" THEN v1
       ELSE IF \E key \in DOMAIN content :
                    /\ content[key].node.k # "Optional"
                    /\ key \notin validation_map
            THEN Fail(v1, "MissingFieldAssignment", 0)
       ELSE v1

\* visit_expression (Initialization)
visit_initialization(v, e) ==
    LET s == TypeExpression(v, e.left)
        content == s.t.node.members
        v1 == InitializationArgs(s.v, content, e.args, 1)
        validation_map == {e.args[i].name : i \in 1..Len(e.args)}
    IN IF s.v.res # "ok" THEN s.v
       ELSE IF s.t.node.k # "Struct" \/ ~ModeStrongCmp(s.t.mode, Undeclared)
            THEN Fail(s.v, "CannotInitialize", 0)
       ELSE IF v1.res # "ok" THEN v1
       ELSE IF \E key \in DOMAIN content :
                    /\ content[key].node.k # "Optional"
                    /\ key \notin validation_map
                    /\ ~IsImplemented(v1, s.t.node.id, key)
            THEN Fail(v1, "MissingFieldAssignment", 0)
       ELSE v1

\* visit_implement_block: the first loop, which attaches each function-valued declaration
implement_methods(v, body, i, struct_name, new_content, id, kind) ==
    IF v.res # "ok" \/ i > Len(body) THEN v
    ELSE LET st == body[i]
             types == DeidAll(v, ParamTypes(st.right.params), 1, <<>>)
             t == From(FuncN(types.ts, st.right.retty, st.right.method))
             content == MapPut(new_content, st.name, Type(t.node, Implemented))
             kind2 == Type(StructN(struct_name, content, id), kind.mode)
             v1 == Push(PopInside(types.v), ImplementFrame(kind2))
             v2 == Assign(v1, "self", From(kind2.node))
             v3 == Implement(v2, id, st.name, Type(t.node, Implemented))
             v4 == Assign(v3, struct_name, kind2)
             v5 == IF MapHas(v4.symtab.stack[1], struct_name)
                      /\ TypeEq(v4.symtab.stack[1][struct_name], kind)
                   THEN Export(v4, struct_name, kind2) ELSE v4
             v6 == Assign(v5, st.name, t)
         IN IF st.s = "Expression" /\ st.expr.e = "EOF"
                THEN ImplementMethods(v, body, i + 1, struct_name, new_content, id, kind)
            ELSE IF st.s # "Variable" \/ st.right.e = "None"
                THEN Fail(v, "ExpectedFunctionDefinition", i)
            ELSE IF st.right.e # "Function"
                THEN ImplementMethods(v, body, i + 1, struct_name, new_content, id, kind)
            ELSE IF types.v.res # "ok" THEN types.v
            ELSE ImplementMethods(v6, body, i + 1, struct_name, content, id, kind)

\* visit_implement_block: the second loop, which visits the function-valued declarations
implement_bodies(v, body, i) ==
    IF v.res # "ok" \/ i > Len(body) THEN v
    ELSE IF IsFunctionDecl(body[i]) THEN ImplementBodies(VisitStatement(v, body[i]), body, i + 1)
    ELSE ImplementBodies(v, body, i + 1)

visit_implement_block(v, body, struct_name, new_content, id, kind) ==
    ImplementBodies(ImplementMethods(v, body, 1, struct_name, new_content, id, kind), body, 1)

\* visit_statement (Implement)
visit_implement(v, st) ==
    LET target == st.target
        v1 == VisitExpression(PushScope(v), target)
    IN IF v1.res # "ok" THEN v1
       ELSE IF target.e = "Identifier" THEN
            LET kind == Fetch(v1, target.name)
                node == kind.node
                v2 == Push(v1, ImplementFrame(kind))
                v3 == IF st.body.e = "Block"
                      THEN VisitImplementBlock(v2, st.body.stmts, node.name, node.members,
                                               node.id, kind)
                      ELSE v2
                v4 == PopInside(v3)
                v5 == Assign(PopScope(v4), node.name, Fetch(v4, node.name))
                tr == TypeExpression(v5, st.parent)
            IN IF ~Bound(v1, target.name) THEN Fail(v1, "NameNotFound", 0)
               ELSE IF node.k # "Struct" THEN Panic(v2)
               ELSE IF ~ModeStrongCmp(kind.mode, Undeclared) THEN Fail(v2, "CannotImplementType", 0)
               ELSE IF v3.res # "ok" THEN v3
               ELSE IF ~Bound(v4, node.name) THEN Fail(v4, "NameNotFound", 0)
               ELSE IF st.parent.e = "None" THEN v5
               ELSE IF tr.v.res # "ok" THEN tr.v
               ELSE IF Fetch(tr.v, node.name).node.k # "Struct" THEN tr.v
               ELSE IF tr.t.node.k # "Trait" THEN Fail(tr.v, "CannotImplementType", 0)
               ELSE Conformance(tr.v, Fetch(tr.v, node.name).node.members, tr.t.node.members)
       ELSE IF target.e = "Index" THEN
            IF target.left.e # "Identifier" THEN v1
            ELSE LET a == TypeExpression(v1, target.left)
                     members == a.t.node.members
                     name == target.index.name
                     kind == members[name]
                     v3 == IF st.body.e = "Block"
                           THEN VisitImplementBlock(a.v, st.body.stmts, kind.node.name,
                                                    kind.node.members, kind.node.id, kind)
                           ELSE a.v
                     v5 == PopScope(PopInside(v3))
                     tr == TypeExpression(v5, st.parent)
                     s == TypeExpression(tr.v, target)
                 IN IF ~Bound(v1, target.left.name) THEN Fail(v1, "NameNotFound", 0)
                    ELSE IF a.v.res # "ok" THEN a.v
                    ELSE IF a.t.node.k # "Module" THEN Fail(a.v, "CannotImplementType", 0)
                    ELSE IF target.index.e # "Identifier" THEN a.v
                    ELSE IF ~MapHas(members, name) THEN a.v
                    ELSE IF kind.node.k # "Struct" THEN a.v
                    ELSE IF ~ModeStrongCmp(kind.mode, Undeclared) THEN a.v
                    ELSE IF v3.res # "ok" THEN v3
                    ELSE IF st.parent.e = "None" THEN v5
                    ELSE IF tr.v.res # "ok" THEN tr.v
                    ELSE IF s.v.res # "ok" THEN s.v
                    ELSE IF s.t.node.k # "Struct" \/ tr.t.node.k # "Trait" THEN s.v
                    ELSE Conformance(s.v, s.t.node.members, tr.t.node.members)
       ELSE Fail(v1, "CannotImplementType", 0)

\* visit_statement (Import); v.files holds the parsed source of each module find_module
\* can resolve
visit_import(v, st) ==
    LET visitor == VisitBlock(NewVisitor(v), v.files[st.path], FALSE, TRUE)
        content_type == visitor.module_content
        module_type == From(ModuleN(content_type, TRUE))
        v1 == ImportSpecifics(v, st.specifics, content_type)
        v2 == [v1 EXCEPT !.symtab.implementations =
                            Extend(@, visitor.symtab.implementations)]
    IN IF st.path \notin DOMAIN v.files THEN Fail(v, "ModuleNotFound", 0)
       ELSE IF visitor.res # "ok" THEN Fail(v, visitor.res, visitor.at)
       ELSE IF \E i \in 1..Len(st.specifics) : ~MapHas(content_type, st.specifics[i])
            THEN Fail(v, "NoSuchMember", 0)
       ELSE Assign(Export(v2, st.path, module_type), st.path, module_type)

\* type_expression, the Binary arm: both operands are typed, then matched with the operator
type_binary(v, e) ==
    LET l == TypeExpression(v, e.left)
        r == TypeExpression(l.v, e.right)
        a == l.t.node
        b == r.t.node
        bad == Late(Fail(r.v, "InvalidOperation", 0), NoType)
        numeric == IF a.k \in {"Float", "Int"} /\ b.k \in {"Float", "Int"}
                       THEN Late(r.v, From(a)) ELSE bad
    IN IF l.v.res # "ok" THEN Late(l.v, NoType)
       ELSE IF r.v.res # "ok" THEN Late(r.v, NoType)
       ELSE IF e.op \in {"Add", "Sub", "Mul", "Div", "Mod"} THEN
           IF ~(NodeEq(a, NilN) /\ NodeEq(b, NilN))
               THEN IF NodeEq(a, b) THEN numeric ELSE bad
           ELSE bad
       ELSE IF e.op = "Pow" THEN numeric
       ELSE IF e.op \in {"And", "Or"} THEN
           IF NodeEq(a, b) /\ NodeEq(a, BoolN) THEN Late(r.v, From(BoolN)) ELSE bad
       ELSE IF e.op = "PipeLeft" THEN
           IF a.k = "Func" THEN Late(r.v, a.ret) ELSE Late(Fail(r.v, "PipeNonFunction", 0), NoType)
       ELSE IF e.op = "PipeRight" THEN
           IF b.k = "Func" THEN Late(r.v, b.ret) ELSE Late(Fail(r.v, "PipeNonFunction", 0), NoType)
       ELSE IF e.op = "Concat" THEN
           IF NodeEq(a, StrN) /\ b.k \notin {"Func", "Array"} THEN Late(r.v, From(StrN)) ELSE bad
       ELSE IF e.op \in {"Eq", "Lt", "Gt", "NEq", "LtEq", "GtEq"} THEN
           IF NodeEq(a, b) THEN Late(r.v, From(BoolN)) ELSE bad
       ELSE bad

\* visit_expression (If): the loop over the else-if and else arms
visit_if_elses(v, body_type, elses, i) ==
    IF v.res # "ok" \/ i > Len(elses) THEN v
    ELSE LET c == IF elses[i].cond.e = "None" THEN TRes(v, From(BoolN))
                  ELSE TypeExpression(v, elses[i].cond)
             v1 == VisitExpression(c.v, elses[i].body)
             b == TypeExpression(v1, elses[i].body)
         IN IF c.v.res # "ok" THEN c.v
            ELSE IF elses[i].cond.e # "None" /\ ~NodeEq(c.t.node, BoolN)
                THEN Fail(c.v, "MismatchedCondition", 0)
            ELSE IF b.v.res # "ok" THEN b.v
            ELSE IF ~TypeEq(body_type, b.t) THEN Fail(b.v, "MismatchedType", 0)
            ELSE VisitIfElses(b.v, body_type, elses, i + 1)

\* visit_expression (If)
visit_if(v, e) ==
    LET v1 == VisitExpression(v, e.cond)
        c == TypeExpression(v1, e.cond)
        v2 == VisitExpression(c.v, e.body)
        b == TypeExpression(v2, e.body)
    IN IF c.v.res # "ok" THEN c.v
       ELSE IF ~NodeEq(c.t.node, BoolN) THEN Fail(c.v, "MismatchedCondition", 0)
       ELSE IF b.v.res # "ok" THEN b.v
       ELSE VisitIfElses(b.v, b.t, e.elses, 1)

\* the body of the called method
Invoke(call) ==
    CASE call[1] = "deid" -> deid(call[2], call[3])
      [] call[1] = "deid_all" -> deid_all(call[2], call[3], call[4], call[5])
      [] call[1] = "type_expression" -> type_expression(call[2], call[3])
      [] call[1] = "type_match" -> type_match(call[2], call[3])
      [] call[1] = "type_index" -> type_index(call[2], call[3])
      [] call[1] = "type_block" -> type_block(call[2], call[3])
      [] call[1] = "type_block_loop" -> type_block_loop(call[2], call[3], call[4])
      [] call[1] = "type_statement" -> type_statement(call[2], call[3])
      [] call[1] = "type_all" -> type_all(call[2], call[3], call[4], call[5])
      [] call[1] = "visit_statement" -> visit_statement(call[2], call[3])
      [] call[1] = "visit_expression" -> visit_expression(call[2], call[3])
      [] call[1] = "visit_variable" -> visit_variable(call[2], call[3], call[4])
      [] call[1] = "visit_block" -> visit_block(call[2], call[3], call[4], call[5])
      [] call[1] = "visit_block_step" -> visit_block_step(call[2], call[3], call[4], call[5], call[6])
      [] call[1] = "visit_block_from" -> visit_block_from(call[2], call[3], call[4], call[5], call[6])
      [] call[1] = "visit_block_pass2" -> visit_block_pass2(call[2], call[3], call[4], call[5])
      [] call[1] = "visit_block_pass2_step" -> visit_block_pass2_step(call[2], call[3], call[4])
      [] call[1] = "visit_call" -> visit_call(call[2], call[3])
      [] call[1] = "call_params" -> call_params(call[2], call[3], call[4], call[5], call[6])
      [] call[1] = "call_splats" -> call_splats(call[2], call[3], call[4], call[5])
      [] call[1] = "call_finish" -> call_finish(call[2], call[3], call[4], call[5])
      [] call[1] = "visit_function" -> visit_function(call[2], call[3])
      [] call[1] = "visit_index" -> visit_index(call[2], call[3])
      [] call[1] = "visit_while" -> visit_while(call[2], call[3])
      [] call[1] = "visit_array" -> visit_array(call[2], call[3])
      [] call[1] = "function_params" -> function_params(call[2], call[3], call[4], call[5], call[6])
      [] call[1] = "param_hash" -> param_hash(call[2], call[3], call[4], call[5])
      [] call[1] = "initialization_args" -> initialization_args(call[2], call[3], call[4], call[5])
      [] call[1] = "visit_initialization" -> visit_initialization(call[2], call[3])
      [] call[1] = "implement_methods" -> implement_methods(call[2], call[3], call[4], call[5], call[6], call[7], call[8])
      [] call[1] = "implement_bodies" -> implement_bodies(call[2], call[3], call[4])
      [] call[1] = "visit_implement_block" -> visit_implement_block(call[2], call[3], call[4], call[5], call[6], call[7])
      [] call[1] = "visit_implement" -> visit_implement(call[2], call[3])
      [] call[1] = "visit_import" -> visit_import(call[2], call[3])
      [] call[1] = "type_binary" -> type_binary(call[2], call[3])
      [] call[1] = "visit_if_elses" -> visit_if_elses(call[2], call[3], call[4], call[5])
      [] call[1] = "visit_if" -> visit_if(call[2], call[3])

(***************************************************************************)
(* Visitor::visit: visit_block(ast, false, true), one statement at a time. *)
(* The statements of ast are drawn as the first loop reaches them.         *)
(***************************************************************************)
Install(v) ==
    /\ symtab' = v.symtab
    /\ inside' = v.inside
    /\ flag' = v.flag
    /\ method_calls' = v.method_calls
    /\ module_content' = v.module_content
    /\ res' = v.res
    /\ at' = v.at

InitVisit ==
    /\ lhs = NoType /\ rhs = NoType /\ verdict = NoVerdict
    /\ VisitorNew

\* the first loop of visit_block reaches the next statement st of the module
Pass1(st, max) ==
    /\ pass = 1 /\ res = "ok" /\ Len(ast) < max
    /\ ast' = Append(ast, st)
    /\ idx' = Len(ast) + 1
    /\ Install(VisitBlockStep(Vis, Append(ast, st), Len(ast) + 1, FALSE, TRUE))
    /\ UNCHANGED <<pass, lhs, rhs, verdict>>
    /\ UNCHANGED findvars

\* the first loop is over
EndPass1 ==
    /\ pass = 1 /\ res = "ok"
    /\ pass' = 2 /\ idx' = 1
    /\ UNCHANGED <<symtab, inside, flag, method_calls, module_content, ast, res, at,
                   lhs, rhs, verdict>>
    /\ UNCHANGED findvars

\* the second loop visits the function-valued declaration at idx, if it is one
Pass2 ==
    /\ pass = 2 /\ res = "ok" /\ idx <= Len(ast)
    /\ idx' = idx + 1
    /\ Install(VisitBlockPass2Step(Vis, ast[idx], TRUE))
    /\ UNCHANGED <<ast, pass, lhs, rhs, verdict>>
    /\ UNCHANGED findvars

\* visit returns Ok(())
Finish ==
    /\ pass = 2 /\ res = "ok" /\ idx > Len(ast)
    /\ pass' = 3
    /\ UNCHANGED <<symtab, inside, flag, method_calls, module_content, ast, idx, res, at,
                   lhs, rhs, verdict>>
    /\ UNCHANGED findvars

(***************************************************************************)
(* Programs of loops, function literals, index expressions and calls       *)
(***************************************************************************)
Inferred == From(NilN)
One == EInt(1)
DeclA == SVariable(Inferred, "a", EArray(<<One, EInt(2)>>), FALSE)
DeclG ==
    SVariable(Inferred, "g",
              EFunction(<<Param("p", From(IntN)), Param("r", Type(IntN, SplatMode(None)))>>,
                        From(NilN), EBlock(<<>>), FALSE), FALSE)
AssignIndex == SAssign(EIndex(EId("a"), EInt(0)), One)
CallSplat == SExpr(ECall(EId("g"), <<One, One, One>>))
Bodies == {<<SBreak>>, <<SSkip>>, <<SReturn(ENone)>>, <<AssignIndex>>, <<CallSplat>>}
WhileOf(body) == SExpr(EWhile(EBool, EBlock(body)))
FunctionOf(body) == SExpr(EFunction(<<>>, From(NilN), EBlock(body), FALSE))
FlowStmts ==
    {DeclA, DeclG, SBreak, SSkip, SReturn(ENone), AssignIndex, CallSplat}
    \cup {WhileOf(b) : b \in Bodies}
    \cup {FunctionOf(b) : b \in Bodies}
    \cup {WhileOf(<<SVariable(Inferred, "h", FunctionOf(<<SBreak>>).expr, FALSE)>>),
          FunctionOf(<<WhileOf(<<SReturn(ENone)>>)>>)}

Next ==
    \/ \E st \in FlowStmts : Pass1(st, MaxStmts)
    \/ EndPass1
    \/ Pass2
    \/ Finish

Init == InitVisit

Spec == Init /\ [][Next]_vars

(***************************************************************************)
(* Programs of function declarations and calls                             *)
(***************************************************************************)
\* most arguments of a call
MaxArgs == 3

DeclF ==
    SVariable(Inferred, "f",
              EFunction(<<Param("p", From(IntN)), Param("q", From(FloatN))>>,
                        From(IntN), EBlock(<<SExpr(One)>>), FALSE), FALSE)
DeclZ ==
    SVariable(Inferred, "z", EFunction(<<>>, From(IntN), EBlock(<<SExpr(One)>>), FALSE), FALSE)
CallDecls == {DeclF, DeclG, DeclZ}
ArgU == {One, EStr, EFloat}
\* r := callee(args)
CallOf(callee, args) == SVariable(Inferred, "r", ECall(EId(callee), args), FALSE)
CallStmts ==
    CallDecls \cup {CallOf(d.name, args) : d \in CallDecls, args \in SeqsUpTo(ArgU, MaxArgs)}

NextCall ==
    \/ \E st \in CallStmts : Pass1(st, MaxCallStmts)
    \/ EndPass1
    \/ Pass2
    \/ Finish

SpecCall == InitVisit /\ [][NextCall]_vars

(***************************************************************************)
(* Programs of array declarations and index expressions                    *)
(***************************************************************************)
\* longest array literal
MaxLen == 2
\* number of top-level statements of a program of arrays and indexes
MaxIndexStmts == 3

\* a := [1, .., k]
ArrayDecl(k) == SVariable(Inferred, "a", EArray([j \in 1..k |-> EInt(j)]), FALSE)
\* a[ix]
IndexAt(ix) == SExpr(EIndex(EId("a"), ix))
IndexU == {EInt(i) : i \in 0..(MaxLen + 1)} \cup {EStr, EBool}
IndexStmts == {ArrayDecl(k) : k \in 1..MaxLen} \cup {IndexAt(ix) : ix \in IndexU}

NextIndex ==
    \/ \E st \in IndexStmts : Pass1(st, MaxIndexStmts)
    \/ EndPass1
    \/ Pass2
    \/ Finish

SpecIndex == InitVisit /\ [][NextIndex]_vars

(***************************************************************************)
(* Programs of structs, traits, implement blocks and member calls          *)
(***************************************************************************)
\* number of top-level statements of a program with implement blocks
MaxImplStmts == 4

\* S := struct { w: float }
DeclS == SVariable(Inferred, "S", EStruct("S", <<Param("w", From(FloatN))>>, "k"), FALSE)
\* T := trait { area: fun() -> float }
DeclT ==
    SVariable(Inferred, "T",
              ETrait("T", <<Param("area", From(FuncN(<<>>, From(FloatN), TRUE)))>>), FALSE)
\* U := trait { area: fun() -> float, perim: fun() -> float }
DeclU ==
    SVariable(Inferred, "U",
              ETrait("U", <<Param("area", From(FuncN(<<>>, From(FloatN), TRUE))),
                            Param("perim", From(FuncN(<<>>, From(FloatN), TRUE)))>>), FALSE)
DeclN == SVariable(Inferred, "n", One, FALSE)
\* r := S { w: 1.0 }
DeclR == SVariable(Inferred, "r", EInitialization(EId("S"), <<Field("w", EFloat)>>), FALSE)
\* area := fun() -> float { 1.0 }, area := fun() -> int { 1 }
Area == SVariable(Inferred, "area",
                  EFunction(<<>>, From(FloatN), EBlock(<<SExpr(EFloat)>>), TRUE), FALSE)
AreaInt == SVariable(Inferred, "area",
                     EFunction(<<>>, From(IntN), EBlock(<<SExpr(One)>>), TRUE), FALSE)
\* x := r.area()
UseArea == SVariable(Inferred, "x", ECall(EIndex(EId("r"), EId("area")), <<>>), FALSE)
\* a block that opens and closes a scope
Scoped == SExpr(EBlock(<<DeclN>>))
ImplTargets == {EId("S"), EId("n"), EId("T"), EId("r"), EId("z")}
ImplParents == {ENone, EId("T"), EId("n")}
ImplBodies == {<<>>, <<Area>>, <<AreaInt>>}
ImplStmts ==
    {DeclS, DeclT, DeclU, DeclN, DeclZ, DeclR, UseArea, Scoped,
     SImplement(EId("S"), EBlock(<<AreaInt>>), EId("U"))}
        \cup {SImplement(EId("S"), EBlock(b), p) : b \in ImplBodies, p \in ImplParents}
        \cup {SImplement(t, EBlock(<<Area>>), ENone) : t \in ImplTargets}

\* the first loop reaches statement st; order is the iteration order of the HashMaps
Pass1Ordered(st, max, order) ==
    /\ pass = 1 /\ res = "ok" /\ Len(ast) < max
    /\ ast' = Append(ast, st)
    /\ idx' = Len(ast) + 1
    /\ Install(VisitBlockStep([Vis EXCEPT !.order = order], Append(ast, st), Len(ast) + 1,
                              FALSE, TRUE))
    /\ UNCHANGED <<pass, lhs, rhs, verdict>>
    /\ UNCHANGED findvars

NextImpl ==
    \/ \E st \in ImplStmts, order \in BOOLEAN : Pass1Ordered(st, MaxImplStmts, order)
    \/ EndPass1
    \/ Pass2
    \/ Finish

SpecImpl == InitVisit /\ [][NextImpl]_vars

(***************************************************************************)
(* Programs that import modules                                            *)
(***************************************************************************)
\* number of top-level statements of a program with imports
MaxImportStmts == 3

Method(name) ==
    SVariable(Inferred, name,
              EFunction(<<>>, From(FloatN), EBlock(<<SExpr(EFloat)>>), TRUE), FALSE)
\* pub g := fun() -> int { 1 }
DeclPubG == SVariable(Inferred, "g", EFunction(<<>>, From(IntN), EBlock(<<SExpr(One)>>), FALSE), TRUE)
\* the struct S of module m
MS == EIndex(EId("m"), EId("S"))
\* the modules on disk, parsed: m declares S with method area, a private n, a private
\* function z and a public function g; b imports m and adds method perim to m's S
Files ==
    [p \in {"m", "b"} |->
        IF p = "m"
        THEN <<DeclS, SImplement(EId("S"), EBlock(<<Area>>), ENone), DeclN, DeclZ, DeclPubG>>
        ELSE <<SImport("m", <<>>), SImplement(MS, EBlock(<<Method("perim")>>), ENone)>>]
\* r := m.S { w: 1.0 }
DeclRm == SVariable(Inferred, "r", EInitialization(MS, <<Field("w", EFloat)>>), FALSE)
UseMethod(name) == SVariable(Inferred, "x", ECall(EIndex(EId("r"), EId(name)), <<>>), FALSE)
ImportStmts ==
    {SImport("m", <<>>), SImport("b", <<>>), SImport("m", <<"S">>), SImport("m", <<"q">>),
     SImport("q", <<>>), DeclT, DeclRm, UseMethod("diag"), UseMethod("area")}
        \cup {SImplement(MS, EBlock(b), p) :
                b \in {<<>>, <<Method("diag")>>, <<Area>>}, p \in {ENone, EId("T")}}
        \cup {SImplement(t, EBlock(<<Method("diag")>>), ENone) :
                t \in {EIndex(EId("m"), EId("n")), EIndex(EId("m"), EId("g")),
                       EIndex(EId("m"), EId("q")), EId("S"), EId("m")}}

\* the first loop reaches statement st of a module whose imports resolve in files
Pass1Files(st, max, files) ==
    /\ pass = 1 /\ res = "ok" /\ Len(ast) < max
    /\ ast' = Append(ast, st)
    /\ idx' = Len(ast) + 1
    /\ Install(VisitBlockStep([Vis EXCEPT !.files = files], Append(ast, st), Len(ast) + 1,
                              FALSE, TRUE))
    /\ UNCHANGED <<pass, lhs, rhs, verdict>>
    /\ UNCHANGED findvars

NextImport ==
    \/ \E st \in ImportStmts : Pass1Files(st, MaxImportStmts, Files)
    \/ EndPass1
    \/ Pass2
    \/ Finish

SpecImport == InitVisit /\ [][NextImport]_vars

(***************************************************************************)
(* Visitor::find_module. A path string is the sequence of its pieces:      *)
(* "/", ".", a name, the endings ".wu" and "init.wu".                       *)
(***************************************************************************)
\* positions of import statements
MaxPos == 2
\* number of files on disk
MaxFiles == 2

Ok(path, map) == [r |-> "ok", path |-> path, import_map |-> map]
\* response!(Wrong("no such module .."), ..): wu_home tells which of the two messages,
\* note whether Note("missing environment variable `WU_HOME`") is attached
ModuleNotFound(wu_home, note, map) ==
    [r |-> "ModuleNotFound", wu_home |-> wu_home, note |-> note, import_map |-> map]
Aborted(map) == [r |-> "panic", import_map |-> map]

RECURSIVE find_module(_, _, _, _, _, _)
find_module(path, root, pos, is_deep_run, e, map) ==
    LET deep == is_deep_run \/ e.is_deep
        plain == root \o <<"/">> \o path \o <<".wu">>
        file_path == IF Head(plain) = "/" /\ ~deep THEN <<".">> \o plain ELSE plain
        init_path == root \o <<"/">> \o path \o <<"/", "init.wu">>
    IN IF file_path \in e.exists THEN Ok(file_path, map)
       ELSE IF init_path \in e.exists THEN Ok(init_path, map)
       ELSE IF deep THEN ModuleNotFound(TRUE, FALSE, map)
       ELSE IF ~e.set THEN ModuleNotFound(FALSE, TRUE, map)
       ELSE IF Len(e.home) = 0 THEN Aborted(map)
       ELSE LET new_path == find_module(path, SubSeq(e.home, 1, Len(e.home) - 1), pos, TRUE,
                                        e, map)
            IN IF new_path.r # "ok" THEN new_path
               ELSE Ok(new_path.path,
                       [p \in (DOMAIN map) \cup {pos} |->
                            IF p = pos THEN <<new_path.path, e.home \o <<"/">>>> ELSE map[p]])

\* the module every import names
ModulePath == <<"m">>
Roots == {<<>>, <<"d">>, <<"/", "d">>}
\* values of WU_HOME
Homes == {<<>>, <<"e">>, <<"e", "/">>}
\* the files a lookup can probe
Probed ==
    UNION {{r \o <<"/">> \o ModulePath \o <<".wu">>,
            <<".">> \o r \o <<"/">> \o ModulePath \o <<".wu">>,
            r \o <<"/">> \o ModulePath \o <<"/", "init.wu">>,
            <<".">> \o r \o <<"/">> \o ModulePath \o <<"/", "init.wu">>} :
                r \in Roots \cup {<<"e">>}}

\* a deep run exists only below an import that WU_HOME resolved
InitFind ==
    /\ lhs = NoType /\ rhs = NoType /\ verdict = NoVerdict
    /\ symtab = NewSymTab /\ inside = <<>> /\ method_calls = {} /\ module_content = EmptyMap
    /\ flag = [f |-> "None", some |-> FALSE, t |-> NoType]
    /\ ast = <<>> /\ pass = 1 /\ idx = 0 /\ res = "ok" /\ at = 0
    /\ import_map = NoImports
    /\ module = NoModule
    /\ outer = <<>>
    /\ \E root \in Roots, home \in Homes, set \in BOOLEAN, is_deep \in BOOLEAN,
          exists \in SUBSET Probed :
            /\ Cardinality(exists) <= MaxFiles
            /\ ~set => (home = <<>> /\ ~is_deep)
            /\ env = [root |-> root, home |-> home, set |-> set, exists |-> exists,
                      is_deep |-> is_deep]

\* the import statement at position pos asks for the module
FindModule(pos) ==
    /\ res = "ok"
    /\ LET found == find_module(ModulePath, env.root, pos, env.is_deep, env, import_map)
       IN /\ module' = [pos |-> pos, result |-> found]
          /\ import_map' = found.import_map
          /\ res' = IF found.r = "ok" THEN "ok" ELSE found.r
    /\ UNCHANGED <<lhs, rhs, verdict, symtab, inside, flag, method_calls, module_content,
                   ast, pass, idx, at, env, outer>>

NextFind == \E pos \in 1..MaxPos : FindModule(pos)

SpecFind == InitFind /\ [][NextFind]_vars

(***************************************************************************)
(* Imports below imports: the Visitor of an imported module checks the     *)
(* imports of that module, and so on.                                      *)
(***************************************************************************)
MaxDepth == 3

\* Path::parent of the path of a module file
Parent(path) ==
    LET n == IF path[Len(path)] = "init.wu" THEN Len(path) - 1 ELSE Len(path) - 2
        dir == SubSeq(path, 1, n)
    IN IF Len(dir) > 1 /\ dir[Len(dir)] = "/" THEN SubSeq(dir, 1, Len(dir) - 1) ELSE dir
\* the files of the modules: m beside the main file, m below WU_HOME as a file and as a
\* directory, and m inside those directories
DeepFiles ==
    {<<".", "/", "m", ".wu">>, <<"e", "/", "m", ".wu">>, <<"e", "/", "m", "/", "init.wu">>,
     <<"e", "/", "m", "/", "m", ".wu">>, <<"e", "/", "m", "/", "m", "/", "init.wu">>}

\* the main file is checked with WU_HOME = "e/"
InitDeep ==
    /\ lhs = NoType /\ rhs = NoType /\ verdict = NoVerdict
    /\ symtab = NewSymTab /\ inside = <<>> /\ method_calls = {} /\ module_content = EmptyMap
    /\ flag = [f |-> "None", some |-> FALSE, t |-> NoType]
    /\ ast = <<>> /\ pass = 1 /\ idx = 0 /\ res = "ok" /\ at = 0
    /\ import_map = NoImports
    /\ module = NoModule
    /\ outer = <<>>
    /\ \E exists \in SUBSET DeepFiles :
            env = [root |-> <<>>, home |-> <<"e", "/">>, set |-> TRUE, exists |-> exists,
                   is_deep |-> FALSE]

\* visit_statement (Import) after find_module: a Visitor is made for the module found, deep
\* iff import_map holds the position of the import, and visits the module
Descend ==
    /\ res = "ok" /\ module.result.r = "ok" /\ Len(outer) < MaxDepth
    /\ outer' = Append(outer, env.is_deep)
    /\ env' = [env EXCEPT !.is_deep = module.pos \in DOMAIN import_map,
                          !.root = Parent(module.result.path)]
    /\ import_map' = NoImports
    /\ module' = NoModule
    /\ UNCHANGED <<lhs, rhs, verdict, symtab, inside, flag, method_calls, module_content,
                   ast, pass, idx, res, at>>

NextDeep ==
    \/ \E pos \in 1..MaxPos : FindModule(pos)
    \/ Descend

SpecDeep == InitDeep /\ [][NextDeep]_vars

(***************************************************************************)
(* Visitor::deid applied to a type, and again to its result                *)
(***************************************************************************)
\* h := fun(p: S) -> S { S { w: 1.0 } }
DeclH ==
    SVariable(Inferred, "h",
              EFunction(<<Param("p", From(IdN(EId("S"))))>>, From(IdN(EId("S"))),
                        EBlock(<<SExpr(EInitialization(EId("S"), <<Field("w", EFloat)>>))>>),
                        FALSE), FALSE)
\* the modules whose bindings the types name
DeidPrograms == {<<DeclS, DeclN>>, <<DeclS, DeclN, DeclH>>, <<DeclN, DeclS, DeclT>>}
\* the members of a foreign module that has its own S
ForeignMembers ==
    [n \in {"S"} |-> Type(StructN("S", [f \in {"v"} |-> From(IntN)], "j"), Undeclared)]
DeidLeafU == {From(IntN), From(IdN(EId("S"))), From(IdN(EId("n"))), From(IdN(EId("h"))),
              From(IdN(EId("q")))}
\* Optional nested up to depth d around a leaf
RECURSIVE OptionalsOf(_)
OptionalsOf(d) ==
    IF d = 0 THEN {l.node : l \in DeidLeafU}
    ELSE OptionalsOf(d - 1) \cup {OptionalN(x) : x \in OptionalsOf(d - 1)}
DeidNodeU ==
    OptionalsOf(MaxCount)
        \cup {ArrayN(l, None) : l \in DeidLeafU}
        \cup {FuncN(q, r, FALSE) : q \in SeqsUpTo(DeidLeafU, MaxArity - 1),
                                   r \in DeidLeafU \cup {From(OptionalN(IdN(EId("S"))))}}
DeidU == {Type(x, m) : x \in DeidNodeU, m \in {Regular, OptionalMode, Undeclared}}

\* a Visitor before it has visited anything
Fresh ==
    [symtab |-> NewSymTab, inside |-> <<>>, flag |-> [f |-> "None", some |-> FALSE, t |-> NoType],
     method_calls |-> {}, module_content |-> EmptyMap, res |-> "ok", at |-> 0, order |-> FALSE,
     files |-> NoFiles]

\* a module has been visited; lhs is a type that names its bindings
InitDeid ==
    /\ rhs = NoType /\ verdict = NoVerdict
    /\ pass = 3 /\ idx = 0
    /\ import_map = NoImports /\ env = NoEnv /\ module = NoModule /\ outer = <<>>
    /\ \E t \in DeidU : lhs = t
    /\ \E prog \in DeidPrograms, foreign \in BOOLEAN :
        LET v == VisitBlock(Fresh, prog, FALSE, TRUE)
        IN /\ ast = prog
           /\ symtab = v.symtab
           /\ inside = IF foreign THEN <<ForeignModule(ForeignMembers)>> ELSE <<>>
           /\ flag = v.flag
           /\ method_calls = v.method_calls
           /\ module_content = v.module_content
           /\ res = v.res
           /\ at = v.at

\* self.deid(lhs)
DeidOnce ==
    /\ verdict.op = "none" /\ res = "ok"
    /\ LET r == Deid(Vis, lhs)
       IN Install(r.v) /\ rhs' = r.t
    /\ verdict' = [NoVerdict EXCEPT !.op = "deid"]
    /\ UNCHANGED <<lhs, ast, pass, idx>>
    /\ UNCHANGED findvars

\* self.deid of the result of self.deid
DeidAgain ==
    /\ verdict.op = "deid" /\ res = "ok"
    /\ LET r == Deid(Vis, rhs)
       IN Install(r.v) /\ rhs' = r.t
    /\ lhs' = rhs
    /\ verdict' = [NoVerdict EXCEPT !.op = "deid2"]
    /\ UNCHANGED <<ast, pass, idx>>
    /\ UNCHANGED findvars

NextDeid == DeidOnce \/ DeidAgain

SpecDeid == InitDeid /\ [][NextDeid]_vars

(***************************************************************************)
(* Binary expressions: a module that may declare `a: any` and binds the    *)
(* results of arithmetic on literals and on a.                             *)
(***************************************************************************)
MaxBinStmts == 2

Arithmetic == {"Add", "Sub", "Mul", "Div", "Mod", "Pow"}
DeclAny == SVariable(From(AnyN), "a", ENone, FALSE)
Operands == {EInt(1), EFloat, EStr, EId("a")}
BindBinary(left, op, right) == SVariable(Inferred, "x", EBinary(left, op, right), FALSE)
BinStmts ==
    {DeclAny} \cup {BindBinary(l, op, r) : l \in Operands, op \in Arithmetic, r \in Operands}

NextBinary ==
    \/ \E st \in BinStmts : Pass1(st, MaxBinStmts)
    \/ EndPass1
    \/ Pass2
    \/ Finish

SpecBinary == InitVisit /\ [][NextBinary]_vars

(***************************************************************************)
(* Initializations: a module that declares structs S = { w: float } and    *)
(* O = { w: float? }, attaches area to S, and binds r to initializations.  *)
(***************************************************************************)
MaxInitStmts == 3

\* O := struct { w: float? }
DeclO ==
    SVariable(Inferred, "O", EStruct("O", <<Param("w", From(OptionalN(FloatN)))>>, "o"), FALSE)
\* the supplied fields: none, w with a Float, an Int literal and a Str, an unknown z, and
\* pairs whose second field is the wrong one
InitFields ==
    {<<>>, <<Field("w", EFloat)>>, <<Field("w", One)>>, <<Field("w", EStr)>>,
     <<Field("z", EFloat)>>, <<Field("w", EFloat), Field("w", EStr)>>,
     <<Field("w", EFloat), Field("z", EFloat)>>, <<Field("z", EFloat), Field("w", EStr)>>}
InitTargets == {EId("S"), EId("O"), EId("r"), EId("n")}
\* r := target { fields }
BindInit(target, fields) == SVariable(Inferred, "r", EInitialization(target, fields), FALSE)
InitStmts ==
    {DeclS, DeclO, DeclN, SImplement(EId("S"), EBlock(<<Area>>), ENone)}
        \cup {BindInit(t, fs) : t \in InitTargets, fs \in InitFields}

NextInit ==
    \/ \E st \in InitStmts : Pass1(st, MaxInitStmts)
    \/ EndPass1
    \/ Pass2
    \/ Finish

SpecInit == InitVisit /\ [][NextInit]_vars

(***************************************************************************)
(* Methods: a module that declares a struct and an instance, reads a       *)
(* member, implements the struct, and declares methods outside of it.      *)
(***************************************************************************)
MaxMethodStmts == 4

\* r.w
UseW == SExpr(EIndex(EId("r"), EId("w")))
\* { area := fun() -> float { 1.0 } }, with area a method
NestedArea == SExpr(EBlock(<<Area>>))
MethodStmts ==
    {DeclS, DeclR, DeclZ, UseW, Area, NestedArea,
     SImplement(EId("S"), EBlock(<<Area>>), ENone), SImplement(EId("S"), EBlock(<<>>), ENone)}

NextMethod ==
    \/ \E st \in MethodStmts : Pass1(st, MaxMethodStmts)
    \/ EndPass1
    \/ Pass2
    \/ Finish

SpecMethod == InitVisit /\ [][NextMethod]_vars

(***************************************************************************)
(* Declaration order: a module of functions f and g whose bodies call f, g *)
(* or the undeclared q, or read n, and of the bindings n := 1, r := f().   *)
(***************************************************************************)
MaxOrderStmts == 3

\* name := fun() -> int { callee() }
Calls(name, callee) ==
    SVariable(Inferred, name,
              EFunction(<<>>, From(IntN), EBlock(<<SExpr(ECall(EId(callee), <<>>))>>), FALSE),
              FALSE)
\* name := fun() -> int { n }
Reads(name) ==
    SVariable(Inferred, name, EFunction(<<>>, From(IntN), EBlock(<<SExpr(EId("n"))>>), FALSE),
              FALSE)
OrderStmts ==
    {Calls(name, callee) : name \in {"f", "g"}, callee \in {"f", "g", "q"}}
        \cup {Reads("f"), Reads("g"), DeclN, CallOf("f", <<>>)}

NextOrder ==
    \/ \E st \in OrderStmts : Pass1(st, MaxOrderStmts)
    \/ EndPass1
    \/ Pass2
    \/ Finish

SpecOrder == InitVisit /\ [][NextOrder]_vars

(***************************************************************************)
(* Implicit results: a module that declares z := fun() -> int { 1 } and    *)
(* visits blocks { x; 1 } and { x } for bare expressions x.                *)
(***************************************************************************)
MaxImplicitStmts == 2

CallZ == ECall(EId("z"), <<>>)
\* { z() } and { 1 }
BlockCall == EBlock(<<SExpr(CallZ)>>)
BlockOne == EBlock(<<SExpr(One)>>)
Arms == {BlockCall, BlockOne}
\* if true { .. }, if true { .. } else { .. }, if true { .. } elif true { .. } else { .. }
IfU ==
    {EIf(EBool, a, <<>>) : a \in Arms}
        \cup {EIf(EBool, a, <<Else(ENone, b)>>) : a \in Arms, b \in Arms}
        \cup {EIf(EBool, a, <<Else(EBool, b), Else(ENone, c)>>) : a \in Arms, b \in Arms, c \in Arms}
BareU == {One, EStr, EId("z"), CallZ, BlockCall, BlockOne, EBlock(<<SExpr(BlockOne)>>)} \cup IfU
\* { x; 1 } and { x }
NotLast(x) == SExpr(EBlock(<<SExpr(x), SExpr(One)>>))
Last(x) == SExpr(EBlock(<<SExpr(x)>>))
ImplicitStmts == {DeclZ} \cup {NotLast(x) : x \in BareU} \cup {Last(x) : x \in BareU}

NextImplicit ==
    \/ \E st \in ImplicitStmts : Pass1(st, MaxImplicitStmts)
    \/ EndPass1
    \/ Pass2
    \/ Finish

SpecImplicit == InitVisit /\ [][NextImplicit]_vars

(***************************************************************************)
(* Comparing two types                                                     *)
(***************************************************************************)
InitEq ==
    /\ \E p \in PairU : lhs = p[1] /\ rhs = p[2]
    /\ verdict = NoVerdict
    /\ VisitorNew

\* lhs == rhs (Type: node, then mode)
StructuralEquals ==
    /\ verdict.op = "none"
    /\ verdict' = [op |-> "eq", node |-> NodeEq(lhs.node, rhs.node),
                   mode |-> ModeEq(lhs.mode, rhs.mode)]
    /\ UNCHANGED <<lhs, rhs>>
    /\ UNCHANGED visvars
    /\ UNCHANGED findvars

\* lhs.node.strong_cmp(&rhs.node), lhs.mode.strong_cmp(&rhs.mode)
StrongEquals ==
    /\ verdict.op = "none"
    /\ verdict' = [op |-> "strong", node |-> StrongCmp(lhs.node, rhs.node),
                   mode |-> ModeStrongCmp(lhs.mode, rhs.mode)]
    /\ UNCHANGED <<lhs, rhs>>
    /\ UNCHANGED visvars
    /\ UNCHANGED findvars

NextEq == StructuralEquals \/ StrongEquals

SpecEq == InitEq /\ [][NextEq]_vars

(***************************************************************************)
(* Properties of the type comparisons (checked under SpecEq)               *)
(***************************************************************************)
IsWildcard(n) == n = AnyN \/ n = OptionalN(AnyN)
Concrete(n) == n.k \notin {"Any", "Id"}

\* C3: structuralEquals is true whenever either operand is Any or Optional(Any),
\* whatever the other operand is (Module, Id, Struct, Trait, Func, ...), in both orders.
C3_WildcardEqualsEverything ==
    (verdict.op = "eq" /\ (IsWildcard(lhs.node) \/ IsWildcard(rhs.node))) => verdict.node

C3_Witness ==
    /\ verdict.op = "eq"
    /\ rhs.node = AnyN
    /\ lhs.node.k = "Module"
    /\ verdict.node

\* C4: structuralEquals is reflexive on every concrete (non-Any, non-Id) node: n == n.
C4_Reflexive ==
    (verdict.op = "eq" /\ lhs.node = rhs.node /\ Concrete(lhs.node)) => verdict.node

\* C5: structuralEquals is symmetric on concrete (non-Any, non-Id) nodes:
\* a == b holds iff b == a holds.
C5_Symmetric ==
    (verdict.op = "eq" /\ Concrete(lhs.node) /\ Concrete(rhs.node))
        => (verdict.node <=> NodeEq(rhs.node, lhs.node))

\* Y, or the inner type of an Optional Y, structurally equals X
MatchesInner(x, y) == NodeEq(x, y) \/ (y.k = "Optional" /\ NodeEq(x, y.inner))

\* C6: for X other than Any, Optional(X) == Nil holds; Optional(X) == Y holds exactly
\* when Y is Nil, Any/Optional(Any), or Y (or Y's inner type) structurally equals X;
\* and Nil == Y does not hold for a concrete non-Optional, non-Nil Y.
C6_OptionalAccepts ==
    /\ (verdict.op = "eq" /\ lhs.node.k = "Optional" /\ lhs.node.inner # AnyN)
        => (verdict.node <=>
              (rhs.node = NilN \/ IsWildcard(rhs.node) \/ MatchesInner(lhs.node.inner, rhs.node)))
    /\ (verdict.op = "eq" /\ lhs.node = NilN /\ Concrete(rhs.node)
          /\ rhs.node.k \notin {"Optional", "Nil"})
        => ~verdict.node

\* the node comparison of section 3 of the specification on member types: equal nodes,
\* a wildcard on either side, or an Optional(X) against Nil or against X
IdenticalNode(x, y) ==
    \/ x = y
    \/ IsWildcard(x) \/ IsWildcard(y)
    \/ (x.k = "Optional" /\ (y = NilN \/ y = x.inner))
    \/ (y.k = "Optional" /\ (x = NilN \/ x = y.inner))

Satisfies(s, t) ==
    \A n \in DOMAIN t.members :
        MapHas(s.members, n) /\ IdenticalNode(t.members[n].node, s.members[n].node)

\* C7: a trait T and a struct S compare equal, in either order, iff every member name
\* of T is present in S's member map with an identical node (modes ignored).
C7_TraitSatisfiedByStruct ==
    /\ (verdict.op = "eq" /\ lhs.node.k = "Trait" /\ rhs.node.k = "Struct")
        => (verdict.node <=> Satisfies(rhs.node, lhs.node))
    /\ (verdict.op = "eq" /\ lhs.node.k = "Struct" /\ rhs.node.k = "Trait")
        => (verdict.node <=> Satisfies(lhs.node, rhs.node))

\* the types at corresponding positions of two nodes of the same kind
PartsOf(n) ==
    IF n.k = "Tuple" THEN [i \in 1..Len(n.elems) |-> n.elems[i].node]
    ELSE IF n.k = "Array" THEN <<n.elem.node>>
    ELSE IF n.k = "Optional" THEN <<n.inner>>
    ELSE IF n.k = "Func" THEN [i \in 1..(Len(n.params) + 1) |->
                                 IF i <= Len(n.params) THEN n.params[i].node ELSE n.ret.node]
    ELSE <<>>

\* x and y have the same shape and x holds a wildcard where y holds another, concrete node
DiffersByWildcard(x, y) ==
    /\ x.k = y.k
    /\ Len(PartsOf(x)) = Len(PartsOf(y))
    /\ \E i \in 1..Len(PartsOf(x)) :
          IsWildcard(PartsOf(x)[i]) /\ ~IsWildcard(PartsOf(y)[i])

\* C8: strongEquals has no Any/Optional leniency at any depth: it is false for a pair
\* that differs by an Any or Optional(Any) inside a Tuple, Array, Optional or Func
\* against a different concrete node; TypeMode::strong_cmp is true only for identical
\* mode variants with equal Splat counts.
C8_StrongIsStrict ==
    /\ (verdict.op = "strong"
          /\ (DiffersByWildcard(lhs.node, rhs.node) \/ DiffersByWildcard(rhs.node, lhs.node)))
        => ~verdict.node
    /\ (verdict.op = "strong" /\ verdict.mode)
        => (lhs.mode.m = rhs.mode.m /\ (lhs.mode.m = "Splat" => lhs.mode.c = rhs.mode.c))

(***************************************************************************)
(* Properties of the traversal (checked under Spec and SpecCall)           *)
(***************************************************************************)
\* the statement the first loop of visit_block has just visited
Visited == pass = 1 /\ Len(ast) > 0
Current == ast[Len(ast)]

\* st holds a statement of one of the kinds that is not lexically inside the body of a
\* construct of kind binder ("While" binds break and skip, "Function" binds return)
RECURSIVE FreeInS(_, _, _), FreeInE(_, _, _)
FreeInS(st, kinds, binder) ==
    \/ st.s \in kinds
    \/ (st.s = "Expression" /\ FreeInE(st.expr, kinds, binder))
    \/ (st.s = "Variable" /\ FreeInE(st.right, kinds, binder))
    \/ (st.s = "Return" /\ FreeInE(st.value, kinds, binder))
    \/ (st.s = "Assignment"
          /\ (FreeInE(st.left, kinds, binder) \/ FreeInE(st.right, kinds, binder)))
FreeInE(e, kinds, binder) ==
    IF e.e = "Block" THEN \E i \in 1..Len(e.stmts) : FreeInS(e.stmts[i], kinds, binder)
    ELSE IF e.e = "While" THEN binder # "While" /\ FreeInE(e.body, kinds, binder)
    ELSE IF e.e = "Function" THEN binder # "Function" /\ FreeInE(e.body, kinds, binder)
    ELSE FALSE

\* C1: a break or skip that is not lexically inside a loop body is rejected with a
\* control-flow error whatever the Checker has checked before it; a break or skip
\* lexically inside a while body is accepted.
C1_BreakNeedsLoop ==
    /\ (Visited /\ FreeInS(Current, {"Break", "Skip"}, "While"))
        => res = "IllegalControlFlow"
    /\ (Visited /\ Current \in {WhileOf(<<SBreak>>), WhileOf(<<SSkip>>)}) => res = "ok"

\* C2: a return that is not lexically inside a function body is rejected with a
\* control-flow error whatever the Checker has checked before it; a return lexically
\* inside a function body is accepted.
C2_ReturnNeedsFunction ==
    /\ (Visited /\ FreeInS(Current, {"Return"}, "Function"))
        => res = "IllegalControlFlow"
    /\ (Visited /\ Current = FunctionOf(<<SReturn(ENone)>>)) => res = "ok"

\* the declaration of the callee of the call just visited, and its signature
IsCall == Visited /\ Current.s = "Variable" /\ Current.right.e = "Call"
CalleeDecl == CHOOSE d \in CallDecls : d.name = Current.right.callee.name
Declared == \E i \in 1..(Len(ast) - 1) : ast[i] = CalleeDecl
Params == ParamTypes(CalleeDecl.right.params)
Args == Current.right.args
HasSplat == \E i \in 1..Len(Params) : Params[i].mode.m = "Splat"

\* an argument literal against a parameter node: an integer literal against Int or
\* Float, or the literal's own type structurally equal to the parameter
LiteralNode(a) == IF a.e = "Int" THEN IntN ELSE IF a.e = "Float" THEN FloatN ELSE StrN
Compatible(a, pnode) ==
    (a.e = "Int" /\ pnode.k \in {"Int", "Float"}) \/ NodeEq(LiteralNode(a), pnode)
Mismatch(i) == i <= Len(Args) /\ ~Compatible(Args[i], Params[i].node)
\* the parameter positions whose argument is missing or does not match
BadPositions == {i \in 1..Len(Params) : i > Len(Args) \/ Mismatch(i)}
FirstBad == CHOOSE i \in BadPositions : \A j \in BadPositions : i <= j
Result == module_content["r"]

\* C9 as stated: n matching arguments succeed with type R; fewer than n arguments fail
\* with MismatchedArgumentCount; a non-matching i-th argument fails with MismatchedType
\* positioned at that argument.
C9_CallChecked ==
    (IsCall /\ Declared /\ ~HasSplat) =>
        /\ (Len(Args) = Len(Params) /\ BadPositions = {})
            => (res = "ok" /\ Result = CalleeDecl.right.retty)
        /\ Len(Args) < Len(Params) => res = "MismatchedArgumentCount"
        /\ \A i \in 1..Len(Params) : Mismatch(i) => (res = "MismatchedType" /\ at = i)

\* C9 amended: the outcome is decided at the first parameter position whose argument
\* is missing (MismatchedArgumentCount) or does not match (MismatchedType at that
\* argument); with exactly n arguments and no such position the call succeeds and
\* types as R.
C9_CallCheckedInOrder ==
    (IsCall /\ Declared /\ ~HasSplat) =>
        /\ (Len(Args) = Len(Params) /\ BadPositions = {})
            => (res = "ok" /\ Result = CalleeDecl.right.retty)
        /\ (BadPositions # {} /\ FirstBad > Len(Args)) => res = "MismatchedArgumentCount"
        /\ (BadPositions # {} /\ FirstBad <= Len(Args))
            => (res = "MismatchedType" /\ at = FirstBad)

C9_Witness ==
    /\ IsCall /\ Declared
    /\ Current = CallOf("f", <<One, One>>)
    /\ res = "ok"
    /\ Result = From(IntN)

\* the arguments beyond the declared parameters all match the last parameter's node
ExtrasMatch ==
    \A i \in (Len(Params) + 1)..Len(Args) : Compatible(Args[i], Params[Len(Params)].node)
LastIsSplat == Len(Params) > 0 /\ Params[Len(Params)].mode.m = "Splat"

\* C10: a call with more arguments than declared parameters is accepted only if the last
\* parameter is a splat and every extra argument matches it; otherwise the check returns
\* an error result (MismatchedSplatArgument for a mismatching extra, an argument-count
\* error when the last parameter is not a splat), also when the callee declares no
\* parameter: an error value, never a process abort.
C10_ExtraArguments ==
    (IsCall /\ Declared /\ Len(Args) > Len(Params)) =>
        /\ res = "ok" => (LastIsSplat /\ ExtrasMatch)
        /\ res # "panic"
        /\ (BadPositions = {} /\ LastIsSplat /\ ~ExtrasMatch) => res = "MismatchedSplatArgument"
        /\ (BadPositions = {} /\ ~LastIsSplat) => res = "MismatchedArgumentCount"

\* the array a is declared before the statement just visited; its fixed length
ArrayDeclared == \E i \in 1..(Len(ast) - 1) : ast[i] \in {ArrayDecl(k) : k \in 1..MaxLen}
ArrayLen == Fetch(Vis, "a").node.len

\* C11: indexing an array of fixed length N with the integer literal i succeeds iff
\* 0 <= i < N and fails with IndexOutOfBounds for every i >= N; an array literal of k
\* elements whose first element is Int types as Array(Int, Some(k)); an index that is
\* not of type Int is rejected.
C11_IndexInBounds ==
    /\ \A i \in 0..(MaxLen + 1) :
        (Visited /\ ArrayDeclared /\ Current = IndexAt(EInt(i))) =>
            /\ res = "ok" <=> i < ArrayLen
            /\ i >= ArrayLen => res = "IndexOutOfBounds"
    /\ \A k \in 1..MaxLen :
        (Visited /\ Current = ArrayDecl(k)) =>
            (res = "ok" /\ module_content["a"] = From(ArrayN(From(IntN), k)))
    /\ (Visited /\ ArrayDeclared /\ Current \in {IndexAt(EStr), IndexAt(EBool)})
        => res # "ok"

(***************************************************************************)
(* Implement blocks, the registry of methods, imports                      *)
(***************************************************************************)
\* statement i is an implement block on the struct with id "k" that declares `name`
Attaches(i, name) ==
    /\ ast[i].s = "Implement"
    /\ ast[i].target \in {EId("S"), MS}
    /\ ast[i].body = EBlock(<<Method(name)>>)
\* statement i is an implement block that declares a method called `name`
Declares(i, name) ==
    /\ ast[i].s = "Implement"
    /\ \E q \in 1..Len(ast[i].body.stmts) : ast[i].body.stmts[q].name = name
\* statement i was checked with success
Checked(i) == i < Len(ast) \/ res = "ok"
Registry == symtab.implementations
MethodType == Type(FuncN(<<>>, From(FloatN), TRUE), Implemented)
InstanceDeclared == \E i \in 1..(Len(ast) - 1) : ast[i] \in {DeclR, DeclRm}

\* C12: once an implement block on the struct with id k that declares method m of type F
\* has been checked (and no later block declares m again), the registry holds (k, m) with
\* node F in mode Implemented for the rest of the run, and a later r.m() on an instance r
\* of that struct checks and types as the return type of F
C12_MethodRegistered ==
    \A name \in {"area", "diag"} :
        (pass = 1 /\ \E i \in 1..Len(ast) :
                        /\ Attaches(i, name) /\ Checked(i)
                        /\ \A j \in (i + 1)..Len(ast) : ~Declares(j, name)) =>
            /\ IsImplemented(Vis, "k", name)
            /\ Registry["k"][name] = MethodType
            /\ (InstanceDeclared /\ Current = UseMethod(name)) =>
                    (res = "ok" /\ Fetch(Vis, "x") = From(FloatN))

\* targets that resolve to an Int, a Trait, a Func, and to members of module m that are
\* an Int and a Func
NonStructTargets ==
    {EId("n"), EId("T"), EId("z"), EIndex(EId("m"), EId("n")), EIndex(EId("m"), EId("g"))}
\* the name a target starts with was bound by an earlier statement
TargetBound ==
    LET t == Current.target
        name == IF t.e = "Index" THEN t.left.name ELSE t.name
    IN \E i \in 1..(Len(ast) - 1) :
        \/ ast[i].s = "Variable" /\ ast[i].name = name
        \/ ast[i].s = "Import" /\ ast[i].path = name

\* C13: an implement statement whose target resolves to something that is not a Struct
\* fails with CannotImplementType: the check returns an error, never success and never
\* an abort of the process
C13_NonStructTarget ==
    (Visited /\ Current.s = "Implement" /\ Current.target \in NonStructTargets /\ TargetBound)
        => res = "CannotImplementType"

\* the current statement is `implement S: T { .. }` or `implement m.S: T { .. }`, the first
\* implement block of the program, with T and the struct bound by earlier statements
ConformanceCase ==
    /\ Visited /\ Current.s = "Implement"
    /\ Current.target \in {EId("S"), MS} /\ Current.parent = EId("T")
    /\ \A i \in 1..(Len(ast) - 1) : ast[i].s # "Implement"
    /\ \E i \in 1..(Len(ast) - 1) : ast[i] = DeclT
    /\ \E i \in 1..(Len(ast) - 1) :
        \/ Current.target = EId("S") /\ ast[i] \in {DeclS, SImport("m", <<"S">>)}
        \/ Current.target = MS /\ ast[i].s = "Import" /\ ast[i].path = "m"
\* the declarations of `area` in the body of the current implement block
AreaDecls == {q \in 1..Len(Current.body.stmts) : Current.body.stmts[q].name = "area"}

\* C14: with a parent trait T = { area: fun() -> float } the conformance check is made
\* against the members of the struct plus the methods the block attaches: it succeeds iff
\* area is there with the node T gives it, fails with MissingTraitMethod when area is
\* missing and with MismatchedTraitMethodType when its node differs, for a bare-name
\* target and for a module-qualified one
C14_TraitConformance ==
    ConformanceCase =>
        /\ AreaDecls = {} => res = "MissingTraitMethod"
        /\ \A q \in AreaDecls :
            res = (IF Current.body.stmts[q].right.retty = From(FloatN) THEN "ok"
                   ELSE "MismatchedTraitMethodType")

\* the registry of a module on disk, as its own Visitor leaves it
RegistryOf(path) ==
    LET visitor == VisitBlock(NewVisitor([Vis EXCEPT !.files = Files]), Files[path], FALSE, TRUE)
    IN visitor.symtab.implementations
\* every (id, name) of registry a is in registry b
EntriesWithin(a, b) ==
    \A id \in DOMAIN a : \A name \in DOMAIN a[id] : MapHas(b, id) /\ MapHas(b[id], name)

\* C15: the merge of the registries on import is a union: after a successful import the
\* registry of the importer holds every (structId, methodName) it held before and every
\* entry of the registry of the imported module
C15_ImportUnion ==
    [][(pass = 1 /\ Len(ast') = Len(ast) + 1 /\ ast'[Len(ast')].s = "Import" /\ res' = "ok") =>
            /\ EntriesWithin(Registry, Registry')
            /\ EntriesWithin(RegistryOf(ast'[Len(ast')].path), Registry')]_vars

\* C16: module_content holds a name only if a top-level statement binds it and declares
\* it public; bindings that are not public and the paths of imported modules never appear
C16_OnlyPublicExported ==
    \A name \in DOMAIN module_content :
        \E i \in 1..Len(ast) : ast[i].s = "Variable" /\ ast[i].name = name /\ ast[i].public

(***************************************************************************)
(* Resolving the path of an imported module                                *)
(***************************************************************************)
\* `<dir>/<rest>`; the empty dir is the current directory
Under(dir, rest) == IF dir = <<>> THEN <<".", "/">> \o rest ELSE dir \o <<"/">> \o rest
\* a directory without its closing "/"s
RECURSIVE Dir(_)
Dir(d) == IF Len(d) > 1 /\ d[Len(d)] = "/" THEN Dir(SubSeq(d, 1, Len(d) - 1)) ELSE d
NotThere == <<>>
\* `<dir>/<path>.wu` if it exists, else `<dir>/<path>/init.wu` if it exists
TwoStep(dir) ==
    IF Under(dir, ModulePath \o <<".wu">>) \in env.exists
        THEN Under(dir, ModulePath \o <<".wu">>)
    ELSE IF Under(dir, ModulePath \o <<"/", "init.wu">>) \in env.exists
        THEN Under(dir, ModulePath \o <<"/", "init.wu">>)
    ELSE NotThere
Looked == module.pos # 0
Found == module.result
Local == TwoStep(env.root)
EnvTried == Local = NotThere /\ ~env.is_deep /\ env.set
EnvFound == EnvTried /\ TwoStep(Dir(env.home)) # NotThere

\* C17: find_module returns <root>/<path>.wu if it exists, else <root>/<path>/init.wu; if
\* neither exists, the run is not deep and WU_HOME is set, it returns the same two-step
\* lookup under WU_HOME and records position -> (path, WU_HOME) in import_map, in that
\* case only; otherwise it fails with ModuleNotFound, with the missing-WU_HOME note iff
\* the variable is unset, and with the other message when the lookup under WU_HOME failed
C17_ModuleLookup ==
    Looked =>
        /\ Local # NotThere => (Found.r = "ok" /\ Found.path = Local)
        /\ EnvFound => (Found.r = "ok" /\ Found.path = TwoStep(Dir(env.home)))
        /\ module.pos \in DOMAIN import_map <=> EnvFound
        /\ EnvFound =>
            /\ import_map[module.pos][1] = Found.path
            /\ Dir(import_map[module.pos][2]) = Dir(env.home)
        /\ (Local = NotThere /\ ~EnvFound) =>
            /\ Found.r = "ModuleNotFound"
            /\ Found.note <=> ~env.set
            /\ EnvTried => Found.wu_home

(***************************************************************************)
(* Resolving the Id nodes of a type                                        *)
(***************************************************************************)
\* no Id node where deid looks: at the top, inside Optional, in the parameters and the
\* return type of a Func
RECURSIVE NoIdNode(_)
NoIdNode(node) ==
    IF node.k = "Id" THEN FALSE
    ELSE IF node.k = "Optional" THEN NoIdNode(node.inner)
    ELSE IF node.k = "Array" THEN NoIdNode(node.elem.node)
    ELSE IF node.k = "Func"
        THEN NoIdNode(node.ret.node) /\ \A i \in 1..Len(node.params) : NoIdNode(node.params[i].node)
    ELSE TRUE

\* C18: under a fixed symbol table and context stack deid is idempotent,
\* deid(deid(t)) = deid(t); a type without Id node is returned as it is; the result of
\* deid has the mode of t
C18_DeidIdempotent ==
    /\ (verdict.op = "deid2" /\ res = "ok") => rhs = lhs
    /\ (verdict.op = "deid" /\ res = "ok") => rhs.mode = lhs.mode
    /\ (verdict.op = "deid" /\ NoIdNode(lhs.node)) => (res = "ok" /\ rhs = lhs)

\* an Id with a mode of its own has been resolved to the struct it names, twice
C18_Witness ==
    /\ verdict.op = "deid2" /\ res = "ok"
    /\ rhs.node.k = "Struct" /\ rhs.mode = OptionalMode

\* the numeric kind an operand of BinStmts types as: a literal's own kind, Any for `a`
OperandKind(e) == IF e.e = "Identifier" THEN "Any" ELSE e.e
\* the current statement binds x to arithmetic on operands that are literals or a bound name
ArithmeticCase ==
    /\ Visited /\ Current.s = "Variable" /\ Current.right.e = "Binary"
    /\ Current.right.op \in Arithmetic
    /\ (EId("a") \in {Current.right.left, Current.right.right}) => (Len(ast) = 2 /\ ast[1] = DeclAny)

\* C20: for each of + - * / % **, a binary expression types iff both operands are Int or
\* both are Float, and then as that kind; every other pair of operands (Int with Float, an
\* Any operand, a non-numeric operand) fails with InvalidOperation
C20_SameNumericKind ==
    ArithmeticCase =>
        LET a == OperandKind(Current.right.left)
            b == OperandKind(Current.right.right)
        IN IF a = b /\ a \in {"Int", "Float"}
               THEN res = "ok" /\ Fetch(Vis, "x") = From(Prim(a))
               ELSE res = "InvalidOperation"

\* the current statement is r := target { fields } with the target bound earlier
InitCase ==
    /\ Visited /\ Current.s = "Variable" /\ Current.right.e = "Initialization"
    /\ \E i \in 1..(Len(ast) - 1) : ast[i].s = "Variable" /\ ast[i].name = Current.right.left.name
\* the type the target is bound to, the supplied fields, the type of a supplied literal
Target == Fetch(Vis, Current.right.left.name)
Supplied == Current.right.args
LiteralType(e) == From(Prim(e.e))
\* a member type is compatible with a value: the literal check, or the member type equals
\* the value's type
FieldCompatible(member, value) ==
    CheckExpression(member.node, value) \/ TypeEq(member, LiteralType(value))
AllDeclared == \A i \in 1..Len(Supplied) : MapHas(Target.node.members, Supplied[i].name)
AllCompatible ==
    \A i \in 1..Len(Supplied) :
        MapHas(Target.node.members, Supplied[i].name) =>
            FieldCompatible(Target.node.members[Supplied[i].name], Supplied[i].value)
NoneMissing ==
    \A key \in DOMAIN Target.node.members :
        \/ Target.node.members[key].node.k = "Optional"
        \/ \E i \in 1..Len(Supplied) : Supplied[i].name = key
        \/ IsImplemented(Vis, Target.node.id, key)

C28_StrongRefinesStructural ==
    (verdict.op = "strong" /\ verdict.node) => NodeEq(lhs.node, rhs.node)

\* two Arrays of the same element type, the left without a length and the right with one,
\* are strongly equal
C28_Witness ==
    /\ verdict.op = "strong" /\ verdict.node
    /\ lhs.node.k = "Array" /\ rhs.node.k = "Array"
    /\ lhs.node.len = None /\ rhs.node.len # None
    /\ NodeEq(lhs.node, rhs.node)

\* C29: == and strong_cmp on two Struct nodes are true exactly when name and id are equal,
\* whatever the member maps are
C29_StructEqualityById ==
    (verdict.op # "none" /\ lhs.node.k = "Struct" /\ rhs.node.k = "Struct") =>
        (verdict.node <=> (lhs.node.name = rhs.node.name /\ lhs.node.id = rhs.node.id))

\* two structs of one name and id with different member maps compare equal
C29_Witness ==
    /\ verdict.op = "eq" /\ verdict.node
    /\ lhs.node.k = "Struct" /\ rhs.node.k = "Struct"
    /\ lhs.node.id = rhs.node.id
    /\ lhs.node.members # rhs.node.members

\* two structs of one name and member map with different ids compare unequal
C29_WitnessIds ==
    /\ verdict.op = "strong" /\ ~verdict.node
    /\ lhs.node.k = "Struct" /\ rhs.node.k = "Struct"
    /\ lhs.node.id # rhs.node.id
    /\ lhs.node.members = rhs.node.members /\ lhs.node.name = rhs.node.name

\* the second loop of visit_block has just visited the statement at idx - 1
Visited2 == pass = 2 /\ idx > 1
Current2 == ast[idx - 1]

\* C21: a function literal declared as a method is accepted inside an implement block and
\* fails with MethodOutsideImplementation anywhere else (at the top level of the module, in
\* a nested block), whatever index expressions and implement blocks were checked before it
C21_MethodOnlyInImplement ==
    /\ (Visited2 /\ Current2 = Area) => res = "MethodOutsideImplementation"
    /\ (Visited /\ Current = NestedArea) => res = "MethodOutsideImplementation"
    /\ (Visited /\ Current = SImplement(EId("S"), EBlock(<<Area>>), ENone)
            /\ \E i \in 1..(Len(ast) - 1) : ast[i] = DeclS) => res = "ok"

\* C23: every frame pushed onto `inside` by the visit of a statement is popped again: a
\* statement that is visited successfully leaves the context stack as it found it
C23_ContextStackBalanced == [][res' = "ok" => inside' = inside]_vars

\* the name the body of a function declaration of OrderStmts refers to
Refers(st) ==
    LET last == st.right.body.stmts[1].expr
    IN IF last.e = "Call" THEN last.callee.name ELSE last.name
\* a variable statement of the block declares the name, before or after any other
DeclaredInBlock(name) == \E i \in 1..Len(ast) : ast[i].s = "Variable" /\ ast[i].name = name
\* the signature of the functions of OrderStmts
Signature == From(FuncN(<<>>, From(IntN), FALSE))

\* C24: the first loop of visit_block binds every function-valued declaration to its
\* signature without visiting its body; the second loop visits the bodies in declaration
\* order, when every statement of the block has been processed. A body that refers to a
\* name declared anywhere in the block (a later function, the function itself, a sibling
\* that calls back) is accepted, and the first body that refers to an undeclared name
\* fails in the second loop
C24_TwoPassOrdering ==
    /\ (Visited /\ IsFunctionDecl(Current)) =>
            (res = "ok" /\ Fetch(Vis, Current.name) = Signature)
    /\ (pass = 1 /\ res # "ok") => ~IsFunctionDecl(Current)
    /\ (Visited2 /\ IsFunctionDecl(Current2)) =>
            /\ (res = "ok") <=> DeclaredInBlock(Refers(Current2))
            /\ \A j \in 1..(idx - 2) : IsFunctionDecl(ast[j]) => DeclaredInBlock(Refers(ast[j]))
    /\ (pass = 3) =>
            \A j \in 1..Len(ast) : IsFunctionDecl(ast[j]) => DeclaredInBlock(Refers(ast[j]))

\* f calls g, which is declared after it and calls f: both bodies were accepted
C24_Witness ==
    /\ pass = 3 /\ res = "ok"
    /\ Len(ast) >= 2 /\ ast[1] = Calls("f", "g") /\ ast[2] = Calls("g", "f")

\* the rule for a bare expression: a call, or a block, if or while whose result obeys the
\* rule, for an if the result of every arm
RECURSIVE ResultOk(_)
ResultOk(e) ==
    IF e.e = "Call" THEN TRUE
    ELSE IF e.e = "Block" THEN
        IF Len(e.stmts) = 0 THEN TRUE
        ELSE LET last == e.stmts[Len(e.stmts)]
             IN last.s = "Expression" => ResultOk(last.expr)
    ELSE IF e.e = "While" THEN ResultOk(e.body)
    ELSE IF e.e = "If"
        THEN ResultOk(e.body) /\ \A i \in 1..Len(e.elses) : ResultOk(e.elses[i].body)
    ELSE FALSE

\* the current statement is a block visited after z was declared
BlockCase == Visited /\ Len(ast) = 2 /\ ast[1] = DeclZ /\ Current # DeclZ
First == Current.expr.stmts[1].expr

\* C22: in a block { x; 1 } the bare expression x must obey the rule, for an `if` in every
\* arm, else the block fails with UnexpectedImplicitExpression; in { x } the last statement
\* x is not subject to the rule
C22_NoImplicitResult ==
    BlockCase =>
        IF Len(Current.expr.stmts) = 2
            THEN IF ResultOk(First) THEN res = "ok" ELSE res = "UnexpectedImplicitExpression"
            ELSE res = "ok"

\* the step visits `implement S { .. }` with one method, successfully, in a module whose
\* export of S is the type S is bound to
ImplementStep ==
    /\ pass = 1 /\ pass' = 1 /\ Len(ast') = Len(ast) + 1 /\ res' = "ok"
    /\ ast'[Len(ast')].s = "Implement" /\ ast'[Len(ast')].target = EId("S")
    /\ Len(ast'[Len(ast')].body.stmts) = 1
    /\ MapHas(module_content, "S") /\ Bound(Vis, "S")
    /\ module_content["S"] = Fetch(Vis, "S")
\* new is old rebuilt: the same name, id and mode, the members of old and the method
Rebuilt(old, new, method) ==
    /\ new.node.k = "Struct" /\ new.node.name = old.node.name /\ new.node.id = old.node.id
    /\ new.mode = old.mode
    /\ DOMAIN new.node.members = DOMAIN old.node.members \cup {method}
    /\ \A n \in DOMAIN old.node.members \ {method} : new.node.members[n] = old.node.members[n]
    /\ new.node.members[method].mode = Implemented

\* C25: an implement block on a top-level struct S whose export still holds the type S had
\* before the block replaces the export of S by the rebuilt struct type: the same name, id
\* and mode, the member map extended with the attached method
C25_ExportRebuilt ==
    [][ImplementStep =>
            Rebuilt(module_content["S"], module_content'["S"],
                    ast'[Len(ast')].body.stmts[1].name)]_vars

\* this Visitor or one of the Visitors above it is deep: an import above was resolved
\* through WU_HOME
DeepAbove == env.is_deep \/ \E i \in 1..Len(outer) : outer[i]

\* C26: once an import was resolved through WU_HOME, the Visitor of that module and the
\* Visitors of the modules below it, at every depth, are deep, and none of their imports
\* is resolved through WU_HOME again
C26_DeepIsTransitive ==
    [][DeepAbove => (env'.is_deep /\ import_map' \in {import_map, NoImports})]_vars

\* no Id node at any depth: not at the top, nor inside Optional, Array, Tuple, the
\* parameters and return type of a Func, the members of a Struct or Trait
RECURSIVE IdFree(_)
IdFree(node) ==
    IF node.k = "Id" THEN FALSE
    ELSE IF node.k = "Optional" THEN IdFree(node.inner)
    ELSE IF node.k = "Array" THEN IdFree(node.elem.node)
    ELSE IF node.k = "Tuple" THEN \A i \in 1..Len(node.elems) : IdFree(node.elems[i].node)
    ELSE IF node.k = "Func"
        THEN IdFree(node.ret.node) /\ \A i \in 1..Len(node.params) : IdFree(node.params[i].node)
    ELSE IF node.k \in {"Struct", "Trait"}
        THEN \A n \in DOMAIN node.members : IdFree(node.members[n].node)
    ELSE TRUE

\* C27: the type deid returns holds no Id node at any depth
C27_DeidLeavesNoId == (verdict.op = "deid" /\ res = "ok") => IdFree(rhs.node)

\* C30: a successful visit of a statement leaves the scope stack of the symbol table at
\* the depth it had before the visit
C30_ScopeStackBalanced == [][res' = "ok" => Len(symtab'.stack) = Len(symtab.stack)]_vars

====
